---------------------------- MODULE Spec2Model ----------------------------
(***************************************************************************)
(* Retrieval core of insurance_rag: the domain registry, the query         *)
(* analyzer (classification, expansion, source relevance, synonyms), the   *)
(* topic engine and the domain-aware retriever (LCDAwareRetriever) built   *)
(* by get_retriever.                                                       *)
(*                                                                         *)
(* Text.  A Python str is modelled as a sequence of units.  A unit is      *)
(* either a word (a maximal run the regexes treat as one token, e.g.       *)
(* "wound care") or one of the separator characters " ", "?", "(".  A      *)
(* compiled regex is modelled by the set of units it matches (computed by  *)
(* running the regex of patterns.py on every unit of the vocabulary);      *)
(* pattern.search(text) is "some unit of text is in the set".  Pattern     *)
(* lists keep their length and order; a regex that matches no unit of the  *)
(* vocabulary is the empty set.                                            *)
(***************************************************************************)
EXTENDS Integers, Sequences, FiniteSets, TLC

VARIABLES
    registry,     \* domains/__init__.py _REGISTRY: the registered domain names
    topicCache,   \* ingest/cluster.py _TOPIC_DEF_CACHE: key -> loaded definitions
    corpus,       \* the chunks of the vector store collection, in insertion order
    ret,          \* the retriever built by get_retriever (or NoRetriever)
    log,          \* logger.warning records emitted so far (a set of tags)
    call,         \* the retrieval call in progress / last finished
    prev,         \* the result of the previous finished call with the same inputs
    ex,           \* the analyzer functions applied to an input
    classes,      \* domains/__init__.py _REGISTRY: registered name -> domain class
    imported,     \* whether the built-in domain packages have been imported
    fs,           \* the files under raw_dir and processed_dir: path -> content
    job,          \* the download or extraction operation in progress / last finished
    bm25          \* the keyword index, its one-shot build and the callers using it

vars == <<registry, topicCache, corpus, ret, log, call, prev, ex,
          classes, imported, fs, job, bm25>>

None == "None"   \* Python None

-----------------------------------------------------------------------------
(* Bounds *)

MaxQueryLen == 3   \* longest query (in units) the analyzer functions are given
MaxCandidates == 3   \* longest candidate list handed to the boost on its own
MaxK == 15         \* largest k a caller passes (larger than the largest corpus, and floor(k / 3) > 4)

-----------------------------------------------------------------------------
(* Vocabulary *)

Words == {"LCD", "wound care", "imaging", "hcpcs", "modifier", "is",
          "PIP", "liability", "premium", "policy"}
Seps == {" ", "?", "("}
Units == Words \cup Seps

\* str.lower() on one unit
LowerUnit(u) ==
    CASE u = "LCD" -> "lcd"
      [] u = "PIP" -> "pip"
      [] OTHER -> u

\* str.lower()
Lower(s) == [i \in 1..Len(s) |-> LowerUnit(s[i])]

\* pattern.search(text) for a regex compiled with re.IGNORECASE
Search(pat, text) == \E i \in 1..Len(text) : text[i] \in pat

\* pattern.sub("", text): every match is a whole unit
SubEmpty(pat, text) == SelectSeq(text, LAMBDA u : u \notin pat)

\* sep.join(parts) for parts that are single units
RECURSIVE Join(_, _)
Join(sep, parts) ==
    IF parts = <<>> THEN <<>>
    ELSE IF Len(parts) = 1 THEN <<parts[1]>>
    ELSE <<parts[1], sep>> \o Join(sep, Tail(parts))

\* no download or extraction operation has been started
NoJob == [pc |-> "off"]

\* the keyword index is not in use
NoIndex == [pc |-> "off"]

-----------------------------------------------------------------------------
(* Pattern data of the two built-in domains *)

\* medicare/patterns.py LCD_QUERY_PATTERNS
LCD_QUERY_PATTERNS ==
    << {"LCD"},  \* \blcds?\b
       {},  \* \blocal coverage determination\b
       {},  \* \bcoverage determination\b
       {},  \* \bncd\b
       {},  \* \bnational coverage determination\b
       {},  \* \bmcd\b
       {},  \* \bcontractor\b
       {},  \* \bjurisdiction\b
       {},  \* \bnovitas\b
       {},  \* \bfirst coast\b
       {},  \* \bcgs\b
       {},  \* \bngs\b
       {},  \* \bwps\b
       {},  \* \bpalmetto\b
       {},  \* \bnoridian\b
       {},  \* \b[jJ][a-l]\b
       {},  \* \bcover(?:ed)?\b.{0,40}\b(?:wound|hyperbaric|oxygen therapy|
       {},  \* \bcoverage\b.{0,30}\b(?:wound|hyperbaric|oxygen|infusion|ima
       {} >>  \* \b(?:wound|hyperbaric|oxygen therapy|infusion|imaging|MRI|CT
\* medicare/patterns.py LCD_TOPIC_PATTERNS
LCD_TOPIC_PATTERNS ==
    << <<{}, "cardiac rehabilitation program coverage criteria">>,  \* \bcardiac\s*rehab
       <<{}, "hyperbaric oxygen therapy wound healing coverage indications">>,  \* \bhyperbaric\s*oxygen
       <<{}, "outpatient physical therapy rehabilitation coverage">>,  \* \bphysical therapy
       <<{"wound care"}, "wound care negative pressure therapy coverage">>,  \* \b(?:wound\s*care|wound\s*vac)
       <<{"imaging"}, "advanced diagnostic imaging coverage medical necessity">> >>  \* \b(?:imaging|MRI|CT\s*scan)
STRIP_LCD_NOISE == {"LCD"}
MED_STRIP_FILLER == {"is"}
\* medicare/patterns.py
IOM_PATTERNS ==
    << {},  \* \bpart\s+[a-d]\b
       {},  \* \biom\b
       {},  \* \binternet\s+only\s+manual\b
       {},  \* \bcms\s+manual\b
       {},  \* \bclaim(?:s)?\s*(?:processing|submission|filing)\b
       {},  \* \bbenefit(?:s)?\s*(?:policy|period)\b
       {},  \* \benrollment\b
       {},  \* \beligibility\b
       {},  \* \bmedicare\b.*\b(?:policy|guideline|manual|chapter|rule)\b
       {},  \* \bgeneral\s+billing\b
       {},  \* \bmsn\b
       {},  \* \bmedicare\s+summary\s+notice\b
       {},  \* \bappeal(?:s)?\b
       {} >>  \* \bredetermination\b
\* medicare/patterns.py
MCD_PATTERNS ==
    << {"LCD"},  \* \blcds?\b
       {},  \* \bncds?\b
       {},  \* \bcoverage\s+determination\b
       {},  \* \bmedical\s+necessity\b
       {},  \* \bcoverage\s+criteria\b
       {},  \* \bindication(?:s)?\b
       {},  \* \blimitation(?:s)?\b
       {},  \* \bcontractor\b
       {},  \* \bjurisdiction\b
       {},  \* \bmcd\b
       {},  \* \bnovitas\b
       {},  \* \bfirst\s+coast\b
       {},  \* \bpalmetto\b
       {},  \* \bnoridian\b
       {} >>  \* \bcovered?\b.{0,30}\bservice
\* medicare/patterns.py
CODES_PATTERNS ==
    << {"hcpcs"},  \* \bhcpcs\b
       {},  \* \bcpt\b
       {},  \* \bicd[- ]?10\b
       {},  \* \bprocedure\s+code\b
       {},  \* \bdiagnosis\s+code\b
       {},  \* \bbilling\s+code\b
       {},  \* \bcode(?:s)?\s+for\b
       {"modifier"},  \* \bmodifier\b
       {},  \* \bdrg\b
       {},  \* \brevenue\s+code\b
       {} >>  \* \b[A-V]\d{4}\b
\* medicare/patterns.py SYNONYM_MAP
MED_SYNONYM_MAP ==
    << <<{}, "covered services benefits policy">>,  \* \bcoverage\b
       <<{}, "claims reimbursement payment">>,  \* \bbilling\b
       <<{}, "rehab therapy treatment program">>,  \* \brehabilitation\b
       <<{"wound care"}, "wound management debridement negative pressure therapy">>,  \* \bwound\s*care\b
       <<{"imaging"}, "diagnostic imaging MRI CT scan X-ray ultrasound">>,  \* \bimaging\b
       <<{}, "DME prosthetic orthotic supplies">>,  \* \bdurable\s+medical\s+equipment\b
       <<{}, "home health agency HHA skilled nursing">>,  \* \bhome\s+health\b
       <<{}, "hospice palliative end-of-life terminal care">>,  \* \bhospice\b
       <<{}, "ambulance transport emergency non-emergency">>,  \* \bambulance\b
       <<{}, "infusion injection drug administration">>,  \* \binfusion\b
       <<{}, "physical therapy PT outpatient rehabilitation">>,  \* \bphysical\s+therapy\b
       <<{}, "occupational therapy OT rehabilitation">>,  \* \boccupational\s+therapy\b
       <<{}, "speech-language pathology SLP therapy">>,  \* \bspeech\s+therapy\b
       <<{}, "behavioral health psychiatric psychological services">>,  \* \bmental\s+health\b
       <<{}, "dialysis ESRD end-stage renal disease">>,  \* \bdialysis\b
       <<{}, "chemotherapy oncology cancer treatment">> >>  \* \bchemotherapy\b
\* auto/patterns.py
COVERAGE_QUERY_PATTERNS ==
    << {},  \* \bliability\s+(?:limit|coverage|minimum)\b
       {},  \* \bmin(?:imum)?\s+(?:coverage|liability|limits?)\b
       {},  \* \bbodily\s+injury\b
       {},  \* \bproperty\s+damage\b
       {},  \* \buninsured\s+motorist\b
       {},  \* \bunderinsured\s+motorist\b
       {},  \* \b(?:UM|UIM)\b
       {},  \* \bpersonal\s+injury\s+protection\b
       {"PIP"},  \* \bPIP\b
       {},  \* \bno[- ]fault\b
       {},  \* \btort\s+(?:system|state|threshold)\b
       {},  \* \bcollision\s+coverage\b
       {},  \* \bcomprehensive\s+coverage\b
       {},  \* \bMedPay\b
       {},  \* \bmedical\s+payments?\b
       {},  \* \bgap\s+insurance\b
       {},  \* \brental\s+(?:car|reimbursement)\b
       {},  \* \btowing\b
       {} >>  \* \broadside\s+assistance\b
\* auto/patterns.py
COVERAGE_TOPIC_PATTERNS ==
    << <<{"liability"}, "bodily injury property damage liability coverage limits minimum">>,  \* \bliability\b
       <<{"PIP"}, "PIP no-fault medical expenses lost wages">>,  \* \bPIP|personal injury protection\b
       <<{}, "collision coverage deductible accident damage repair">>,  \* \bcollision\b
       <<{}, "comprehensive coverage theft vandalism weather hail flood">>,  \* \bcomprehensive\b
       <<{"premium"}, "uninsured underinsured motorist coverage gap">>,  \* \buninsured|underinsured|UM|UIM\b
       <<{}, "subrogation recovery third-party claim reimbursement">> >>  \* \bsubrogation\b
STRIP_COVERAGE_NOISE == {"policy"}
AUTO_STRIP_FILLER == {"is"}
\* auto/patterns.py
REGULATIONS_PATTERNS ==
    << {},  \* \bregulat(?:ion|ory|e)\b
       {},  \* \bstatute\b
       {},  \* \binsurance\s+code\b
       {},  \* \bDOI\b
       {},  \* \bdepartment\s+of\s+insurance\b
       {},  \* \binsurance\s+commissioner\b
       {},  \* \bstate\s+law\b
       {},  \* \bstate\s+require(?:ment|d)?\b
       {},  \* \bmandatory\b
       {},  \* \bcompulsory\b
       {},  \* \bfinancial\s+responsibility\b
       {},  \* \bNAIC\b
       {} >>  \* \bmodel\s+(?:law|regulation|act)\b
\* auto/patterns.py
FORMS_PATTERNS ==
    << {},  \* \bpolicy\s+form\b
       {},  \* \bendorsement\b
       {},  \* \bISO\b
       {},  \* \bdeclarations?\s+page\b
       {},  \* \bpersonal\s+auto\s+policy\b
       {},  \* \bPAP\b
       {},  \* \bcommercial\s+auto\b
       {},  \* \bBAP\b
       {},  \* \bcoverage\s+(?:part|form)\b
       {},  \* \bexclusion\b
       {} >>  \* \bconditions?\s+(?:section|clause)\b
\* auto/patterns.py
CLAIMS_PATTERNS ==
    << {},  \* \bclaim(?:s)?\s*(?:process|handling|settlement|adjustment)\b
       {},  \* \badjuster\b
       {},  \* \btotal\s+loss\b
       {},  \* \bsalvage\b
       {},  \* \bsubrogation\b
       {},  \* \bfraud\b
       {},  \* \bSIU\b
       {},  \* \bspecial\s+investigation\b
       {},  \* \bappraisal\b
       {},  \* \barbitration\b
       {} >>  \* \bdiminished\s+value\b
\* auto/patterns.py
RATES_PATTERNS ==
    << {},  \* \brate\s+(?:filing|increase|change|factor)\b
       {"premium"},  \* \bpremium\b
       {},  \* \bunderwriting\b
       {},  \* \brisk\s+(?:factor|classification|assessment)\b
       {},  \* \bactuarial\b
       {},  \* \bloss\s+ratio\b
       {},  \* \bcredit\s+(?:score|based|factor)\b
       {},  \* \btelematics\b
       {},  \* \busage[- ]based\b
       {},  \* \bdiscount\b
       {} >>  \* \bsurcharge\b
\* auto/patterns.py SYNONYM_MAP
AUTO_SYNONYM_MAP ==
    << <<{"liability"}, "bodily injury property damage third-party coverage">>,  \* \bliability\b
       <<{}, "collision accident damage repair deductible">>,  \* \bcollision\b
       <<{}, "comprehensive theft vandalism weather hail flood fire">>,  \* \bcomprehensive\b
       <<{"PIP"}, "personal injury protection no-fault medical expenses lost wages">>,  \* \bPIP\b
       <<{}, "uninsured motorist coverage gap protection">>,  \* \bUM\b
       <<{}, "underinsured motorist coverage additional protection">>,  \* \bUIM\b
       <<{"premium"}, "premium rate cost price payment installment">>,  \* \bpremium\b
       <<{}, "deductible out-of-pocket self-insured retention">>,  \* \bdeductible\b
       <<{}, "total loss salvage actual cash value replacement">>,  \* \btotal\s+loss\b
       <<{}, "subrogation recovery reimbursement third-party">>,  \* \bsubrogation\b
       <<{}, "fraud staged accident investigation SIU">>,  \* \bfraud\b
       <<{}, "surcharge points violation accident penalty">>,  \* \bsurcharge\b
       <<{}, "discount safe driver multi-policy bundling good student">>,  \* \bdiscount\b
       <<{}, "gap insurance loan payoff depreciation difference">> >>  \* \bgap\s+insurance\b

\* medicare/patterns.py SOURCE_PATTERNS (a dict: insertion order kept)
MED_SOURCE_PATTERNS ==
    << <<"iom", IOM_PATTERNS>>, <<"mcd", MCD_PATTERNS>>, <<"codes", CODES_PATTERNS>> >>

\* medicare/patterns.py SOURCE_EXPANSIONS
MED_SOURCE_EXPANSIONS ==
    << <<"iom", "Medicare policy guidelines manual chapter benefit rules">>,
       <<"mcd", "coverage determination LCD NCD criteria medical necessity indications limitations">>,
       <<"codes", "HCPCS CPT ICD-10 procedure diagnosis billing codes">> >>

\* A float score is kept as an exact fraction <<numerator, denominator>> in
\* lowest terms, so that == on floats is = on fractions.
RECURSIVE Gcd(_, _)
Gcd(a, b) == IF b = 0 THEN a ELSE Gcd(b, a % b)

Frac(n, d) == IF n = 0 THEN <<0, 1>> ELSE <<n \div Gcd(n, d), d \div Gcd(n, d)>>

\* medicare/patterns.py DEFAULT_SOURCE_RELEVANCE {"iom": 0.4, "mcd": 0.3, "codes": 0.3}
MED_DEFAULT_SOURCE_RELEVANCE ==
    << <<"iom", Frac(4, 10)>>, <<"mcd", Frac(3, 10)>>, <<"codes", Frac(3, 10)>> >>

\* auto/patterns.py SOURCE_PATTERNS
AUTO_SOURCE_PATTERNS ==
    << <<"regulations", REGULATIONS_PATTERNS>>, <<"forms", FORMS_PATTERNS>>,
       <<"claims", CLAIMS_PATTERNS>>, <<"rates", RATES_PATTERNS>> >>

\* auto/patterns.py SOURCE_EXPANSIONS
AUTO_SOURCE_EXPANSIONS ==
    << <<"regulations", "state insurance regulation statute DOI requirement financial responsibility law">>,
       <<"forms", "policy form endorsement ISO PAP coverage declarations exclusion conditions">>,
       <<"claims", "claims handling adjustment settlement subrogation total loss appraisal arbitration">>,
       <<"rates", "premium rate filing underwriting risk factor actuarial loss ratio discount surcharge">> >>

\* auto/patterns.py DEFAULT_SOURCE_RELEVANCE
AUTO_DEFAULT_SOURCE_RELEVANCE ==
    << <<"regulations", Frac(30, 100)>>, <<"forms", Frac(25, 100)>>,
       <<"claims", Frac(25, 100)>>, <<"rates", Frac(20, 100)>> >>

-----------------------------------------------------------------------------
(* Dicts are sequences of <<key, value>> pairs, in insertion order *)

Keys(d) == {d[i][1] : i \in 1..Len(d)}
HasKey(d, k) == \E i \in 1..Len(d) : d[i][1] = k
Get(d, k) == d[CHOOSE i \in 1..Len(d) : d[i][1] = k][2]
AsMap(d) == [k \in Keys(d) |-> Get(d, k)]

-----------------------------------------------------------------------------
(* Domain profiles *)

Pat(p) == [some |-> TRUE, pat |-> p]    \* a compiled regex
NoPat == [some |-> FALSE, pat |-> {}]   \* None where a regex is optional

\* MedicareDomain
MedicareDomain ==
    [ name |-> "medicare",
      collection_name |-> "medicare",
      source_kinds |-> <<"iom", "mcd", "codes">>,
      query_patterns |->
          [ specialized_query_patterns |-> LCD_QUERY_PATTERNS,
            specialized_topic_patterns |-> LCD_TOPIC_PATTERNS,
            strip_noise_pattern |-> Pat(STRIP_LCD_NOISE),
            strip_filler_pattern |-> Pat(MED_STRIP_FILLER) ],
      source_patterns |-> MED_SOURCE_PATTERNS,
      source_expansions |-> MED_SOURCE_EXPANSIONS,
      synonym_map |-> MED_SYNONYM_MAP,
      default_source_relevance |-> MED_DEFAULT_SOURCE_RELEVANCE,
      specialized_source_filter |-> "mcd" ]

\* AutoInsuranceDomain
AutoInsuranceDomain ==
    [ name |-> "auto",
      collection_name |-> "auto_insurance",
      source_kinds |-> <<"regulations", "forms", "claims", "rates">>,
      query_patterns |->
          [ specialized_query_patterns |-> COVERAGE_QUERY_PATTERNS,
            specialized_topic_patterns |-> COVERAGE_TOPIC_PATTERNS,
            strip_noise_pattern |-> Pat(STRIP_COVERAGE_NOISE),
            strip_filler_pattern |-> Pat(AUTO_STRIP_FILLER) ],
      source_patterns |-> AUTO_SOURCE_PATTERNS,
      source_expansions |-> AUTO_SOURCE_EXPANSIONS,
      synonym_map |-> AUTO_SYNONYM_MAP,
      default_source_relevance |-> AUTO_DEFAULT_SOURCE_RELEVANCE,
      specialized_source_filter |-> "regulations" ]

\* the classes the two built-in packages register when imported
BuiltinDomains == {"medicare", "auto"}

DomainClass(name) == IF name = "medicare" THEN MedicareDomain ELSE AutoInsuranceDomain

\* config.DEFAULT_DOMAIN
DEFAULT_DOMAIN == "medicare"

\* the names callers pass as domain_name
DomainNames == {"medicare", "auto", "nonexistent_domain_xyz"}

-----------------------------------------------------------------------------
(* Domain registry: domains/__init__.py *)

\* _discover_domains(): importing the built-in packages registers them
_discover_domains(reg) == reg \cup BuiltinDomains

\* the registry after get_domain(name) (discovery runs only on a miss)
RegistryAfterGet(reg, name) == IF name \in reg THEN reg ELSE _discover_domains(reg)

\* a get_domain that raises on the first miss without looking again after discovery
GetDomainRaises_NoRecheck(reg, name) == name \notin reg

\* get_domain(name) raises KeyError
GetDomainRaises(reg, name) == name \notin RegistryAfterGet(reg, name)

\* get_domain(name) when it does not raise
get_domain(name) == DomainClass(name)

-----------------------------------------------------------------------------
(* Query analyzer: query/retriever.py and query/expand.py *)

\* {} : what _get_domain_query_patterns returns on KeyError, read with the
\* .get() defaults of its callers
EmptyQueryPatterns ==
    [ specialized_query_patterns |-> <<>>,
      specialized_topic_patterns |-> <<>>,
      strip_noise_pattern |-> NoPat,
      strip_filler_pattern |-> NoPat ]

_get_domain_query_patterns(reg, domain_name) ==
    LET name == IF domain_name = None THEN DEFAULT_DOMAIN ELSE domain_name
    IN  IF GetDomainRaises(reg, name) THEN EmptyQueryPatterns
        ELSE get_domain(name).query_patterns

\* is_lcd_query, given the patterns dict
is_lcd_query(query, patterns) ==
    \E i \in 1..Len(patterns.specialized_query_patterns) :
        Search(patterns.specialized_query_patterns[i], query)

\* re.sub(r"[()]+", " ", s)
RECURSIVE ParensToSpace(_)
ParensToSpace(s) ==
    IF s = <<>> THEN <<>>
    ELSE IF s[1] \in {"(", ")"}
         THEN IF Len(s) > 1 /\ s[2] \in {"(", ")"}
              THEN ParensToSpace(Tail(s))
              ELSE <<" ">> \o ParensToSpace(Tail(s))
         ELSE <<s[1]>> \o ParensToSpace(Tail(s))

\* re.sub(r"\s{2,}", " ", s)
RECURSIVE CollapseSpaces(_)
CollapseSpaces(s) ==
    IF s = <<>> THEN <<>>
    ELSE IF s[1] = " " /\ Len(s) > 1 /\ s[2] = " "
         THEN CollapseSpaces(Tail(s))
         ELSE <<s[1]>> \o CollapseSpaces(Tail(s))

StripChars == {" ", "?", ".", ",", ";", ":"}

RECURSIVE LStrip(_)
LStrip(s) == IF s # <<>> /\ s[1] \in StripChars THEN LStrip(Tail(s)) ELSE s

RECURSIVE RStrip(_)
RStrip(s) ==
    IF s # <<>> /\ s[Len(s)] \in StripChars THEN RStrip(SubSeq(s, 1, Len(s) - 1)) ELSE s

\* s.strip(" ?.,;:")
Strip(s) == RStrip(LStrip(s))

\* _strip_to_concept
_strip_to_concept(query, strip_noise, strip_filler) ==
    LET c1 == IF strip_noise.some THEN SubEmpty(strip_noise.pat, query) ELSE query
        c2 == IF strip_filler.some THEN SubEmpty(strip_filler.pat, c1) ELSE c1
        c3 == ParensToSpace(c2)
    IN  Strip(CollapseSpaces(c3))

\* the fallback expansion of expand_lcd_query
GenericExpansion == "Local Coverage Determination LCD policy coverage criteria"

\* only the first matching pattern's expansion
MatchingExpansions_FirstOnly(pairs, query) == IF \E i \in 1..Len(pairs) : Search(pairs[i][1], query) THEN <<pairs[CHOOSE i \in 1..Len(pairs) : Search(pairs[i][1], query) /\ \A h \in 1..(i - 1) : ~Search(pairs[h][1], query)][2]>> ELSE <<>>

\* [exp for pat, exp in topic_patterns if pat.search(query)]
MatchingExpansions(pairs, query) ==
    LET hit == SelectSeq(pairs, LAMBDA pe : Search(pe[1], query))
    IN  [i \in 1..Len(hit) |-> hit[i][2]]

\* an expand_lcd_query that puts the expanded variant in front of the original
expand_lcd_query_ExpandedFirst(query, patterns) ==
    <<query \o <<" ", GenericExpansion>>, query>>

\* an expand_lcd_query that appends the concept variant without testing it
expand_lcd_query_AlwaysConcept(query, patterns) ==
    <<query, query \o <<" ", GenericExpansion>>,
      _strip_to_concept(query, patterns.strip_noise_pattern, patterns.strip_filler_pattern)>>

\* expand_lcd_query, given the patterns dict
expand_lcd_query(query, patterns) ==
    LET topic_expansions == MatchingExpansions(patterns.specialized_topic_patterns, query)
        second == IF topic_expansions # <<>>
                  THEN query \o <<" ">> \o Join(" ", topic_expansions)
                  ELSE query \o <<" ", GenericExpansion>>
        concept == _strip_to_concept(query, patterns.strip_noise_pattern,
                                     patterns.strip_filler_pattern)
    IN  <<query, second>> \o
        (IF concept # <<>> /\ Lower(concept) # Lower(query) THEN <<concept>> ELSE <<>>)

\* number of patterns of the list that match
CountMatches(patterns, text) ==
    Cardinality({i \in 1..Len(patterns) : Search(patterns[i], text)})

Max(a, b) == IF a >= b THEN a ELSE b
Min(a, b) == IF a <= b THEN a ELSE b

\* scores without the cap at 1.0
SourceScores_NoCap(query, source_patterns) == [i \in 1..Len(source_patterns) |-> <<source_patterns[i][1], Frac(CountMatches(source_patterns[i][2], query), Max(1, Len(source_patterns[i][2]) \div 3))>>]

\* the scores dict of detect_source_relevance: min(1.0, matches / threshold)
SourceScores(query, source_patterns) ==
    [i \in 1..Len(source_patterns) |->
        LET patterns == source_patterns[i][2]
            threshold == Max(1, Len(patterns) \div 3)
            matches == CountMatches(patterns, query)
        IN  <<source_patterns[i][1],
              IF matches >= threshold THEN Frac(1, 1) ELSE Frac(matches, threshold)>>]

\* a detect_source_relevance that falls back as soon as any score is zero
detect_source_relevance_Any(query, source_patterns, default_relevance) ==
    LET scores == SourceScores(query, source_patterns)
    IN  IF \E i \in 1..Len(scores) : scores[i][2][1] = 0
        THEN default_relevance
        ELSE scores

\* detect_source_relevance
detect_source_relevance(query, source_patterns, default_relevance) ==
    LET scores == SourceScores(query, source_patterns)
    IN  IF \A i \in 1..Len(scores) : scores[i][2][1] = 0
        THEN default_relevance
        ELSE scores

\* a synonym expansion that puts the additions in front of the query
_apply_synonyms_Prepend(query, synonym_map) == IF MatchingExpansions(synonym_map, query) = <<>> THEN query ELSE Join(" ", MatchingExpansions(synonym_map, query)) \o <<" ">> \o query

\* _apply_synonyms
_apply_synonyms(query, synonym_map) ==
    LET additions == MatchingExpansions(synonym_map, query)
    IN  IF additions = <<>> THEN query
        ELSE query \o <<" ">> \o Join(" ", additions)

\* the source-specific variants of expand_cross_source_query, in relevance order
RECURSIVE SourceVariants(_, _, _)
SourceVariants(query, relevance, source_expansions) ==
    IF relevance = <<>> THEN <<>>
    ELSE LET source == relevance[1][1]
             score == relevance[1][2]
             rest == SourceVariants(query, Tail(relevance), source_expansions)
         IN  IF score[1] > 0 /\ HasKey(source_expansions, source)
             THEN <<query \o <<" ", Get(source_expansions, source)>>>> \o rest
             ELSE rest

\* an expansion that appends the synonym variant whether or not it differs
expand_cross_source_query_AlwaysSynonym(query, source_patterns, source_expansions, synonym_map, default_relevance) == <<query>> \o SourceVariants(query, detect_source_relevance(query, source_patterns, default_relevance), source_expansions) \o <<_apply_synonyms(query, synonym_map)>>

\* expand_cross_source_query
expand_cross_source_query(query, source_patterns, source_expansions, synonym_map, default_relevance) ==
    LET relevance == detect_source_relevance(query, source_patterns, default_relevance)
        synonym_expanded == _apply_synonyms(query, synonym_map)
    IN  <<query>> \o SourceVariants(query, relevance, source_expansions) \o
        (IF synonym_expanded # query THEN <<synonym_expanded>> ELSE <<>>)

-----------------------------------------------------------------------------
(* Topic engine: ingest/cluster.py *)

TopicDef(n, p, m) == [name |-> n, patterns |-> p, min_pattern_matches |-> m]

\* domains/medicare/data/topics.json
MedicareTopics ==
    << TopicDef("wound_care", <<{"wound care"}, {}>>, 1),
       TopicDef("imaging", <<{"imaging"}>>, 1),
       TopicDef("billing_codes", <<{"hcpcs"}, {"modifier"}>>, 2) >>

\* domains/auto/data/topics.json
AutoTopics ==
    << TopicDef("liability_coverage", <<{"liability"}>>, 1),
       TopicDef("um_uim", <<{}, {}>>, 1),
       TopicDef("claims_handling", <<{}>>, 1) >>

\* insurance_rag/data/topic_definitions.json, the package default
PackageDefaultTopics == MedicareTopics

DomainTopics(name) == IF name = "medicare" THEN MedicareTopics ELSE AutoTopics

\* _load_topic_definitions: the domain's topics.json, else the package default
_load_topic_definitions(reg, domain_name) ==
    LET name == IF domain_name = None THEN DEFAULT_DOMAIN ELSE domain_name
    IN  IF GetDomainRaises(reg, name) THEN PackageDefaultTopics ELSE DomainTopics(name)

CacheKey(domain_name) == IF domain_name = None THEN "__default__" ELSE domain_name

\* what _get_topic_definitions stores under the key on a miss
CacheEntry(reg, domain_name) == _load_topic_definitions(reg, domain_name)

\* _TOPIC_DEF_CACHE after _get_topic_definitions(domain_name)
CacheAfterGet(cache, reg, domain_name) ==
    IF CacheKey(domain_name) \in DOMAIN cache THEN cache
    ELSE cache @@ (CacheKey(domain_name) :> CacheEntry(reg, domain_name))

\* _TOPIC_DEF_CACHE after the module is imported: TOPIC_DEFINITIONS = _get_topic_definitions()
CacheAfterImport(cache, reg) == CacheAfterGet(cache, reg, None)

\* _get_topic_definitions(domain_name): the list it returns
_get_topic_definitions(cache, reg, domain_name) ==
    IF CacheKey(domain_name) \in DOMAIN cache THEN cache[CacheKey(domain_name)]
    ELSE _load_topic_definitions(reg, domain_name)

\* assign_topics, given the topic definitions
assign_topics(text, topic_defs) ==
    LET hit == SelectSeq(topic_defs,
                 LAMBDA td : CountMatches(td.patterns, text) >= td.min_pattern_matches)
    IN  [i \in 1..Len(hit) |-> hit[i].name]

Range(s) == {s[i] : i \in 1..Len(s)}

-----------------------------------------------------------------------------
(* Documents and the vector store *)

\* a Document: page_content and the metadata keys the retriever reads
\* (a key that is absent reads as "" or 0); id is the store's id of the chunk
Doc(id, doc_id, chunk_index, source, manual, doc_type, topic_cluster, topic_clusters, content) ==
    [ id |-> id, doc_id |-> doc_id, chunk_index |-> chunk_index, source |-> source,
      manual |-> manual, doc_type |-> doc_type, topic_cluster |-> topic_cluster,
      topic_clusters |-> topic_clusters, content |-> content ]

D1 == Doc("L100_0", "L100", 0, "mcd", "", "chunk", "", <<"wound_care">>,
          <<"LCD", " ", "wound care", " ", GenericExpansion>>)
D2 == Doc("L100_1", "L100", 1, "mcd", "", "chunk", "", <<"wound_care", ",", "imaging">>,
          <<"wound care", " ", "imaging", " ",
            "wound care negative pressure therapy coverage">>)
D3 == Doc("iom_100-02_ch6_0", "iom_100-02_ch6", 0, "iom", "100-02", "chunk", "",
          <<"wound_care">>, <<"wound care", " ", "is", " ", "policy">>)
D4 == Doc("reg_CA_0", "reg_CA", 0, "regulations", "", "chunk", "", <<>>,
          <<"PIP", " ", "liability", " ", "LCD">>)
D5 == Doc("hcpcs_A1001_0", "hcpcs_A1001", 0, "codes", "", "chunk", "", <<>>,
          <<"hcpcs", " ", "modifier">>)
D6 == Doc("topic_wound_care", "topic_wound_care", 0, "iom", "", "topic_summary",
          "wound_care", <<>>, <<"wound care", " ", "LCD">>)
D7 == Doc("summary_L100", "summary_L100", 0, "mcd", "", "document_summary", "",
          <<"wound_care", ",", "imaging">>, <<"LCD", " ", "imaging">>)

\* the store contents a run starts from (insertion order)
Corpora == { <<>>, <<D1, D3, D5>>, <<D1, D2, D3, D4, D5, D6, D7>> }

\* a metadata filter: None, or a dict (a "$and" key holds a list of dicts)
NoFilter == [none |-> TRUE, d |-> <<>>]
Filter(d) == [none |-> FALSE, d |-> d]

\* the store's reading of a where-clause: equality per key, "$and" a conjunction
RECURSIVE Matches(_, _)
Matches(doc, d) ==
    \A i \in 1..Len(d) :
        IF d[i][1] = "$and"
        THEN \A j \in 1..Len(d[i][2]) : Matches(doc, d[i][2][j])
        ELSE doc[d[i][1]] = d[i][2]

\* similarity of a text to a chunk: the words they share
WordsOf(text) == {LowerUnit(text[i]) : i \in 1..Len(text)} \ Seps
Similarity(text, doc) == Cardinality(WordsOf(text) \cap WordsOf(doc.content))

\* the positions of docs in ascending distance (ties: insertion order)
RECURSIVE Ranked(_, _, _)
Ranked(text, docs, todo) ==
    IF todo = {} THEN <<>>
    ELSE LET best == CHOOSE i \in todo : \A j \in todo :
                        \/ Similarity(text, docs[i]) > Similarity(text, docs[j])
                        \/ Similarity(text, docs[i]) = Similarity(text, docs[j]) /\ i <= j
         IN  <<docs[best]>> \o Ranked(text, docs, todo \ {best})

Take(s, n) == SubSeq(s, 1, Min(n, Len(s)))

\* store.similarity_search(text, k=k, filter=flt)
similarity_search(store, text, k, flt) ==
    LET ok == IF flt.none THEN store ELSE SelectSeq(store, LAMBDA doc : Matches(doc, flt.d))
    IN  Take(Ranked(text, ok, 1..Len(ok)), k)

\* collection.get(ids=ids): the chunks stored under these ids; missing ids are dropped
collection_get(store, ids) == SelectSeq(store, LAMBDA doc : doc.id \in Range(ids))

-----------------------------------------------------------------------------
(* Retriever helpers: query/retriever.py *)

\* config.LCD_RETRIEVAL_K, the specialized-path floor: a deployment option (about
\* 16 by default), scaled here to the size of the corpora
LCD_RETRIEVAL_K == 5

\* d.get(k) of a dict
DictGet(d, k) == IF HasKey(d, k) THEN Get(d, k) ELSE None

\* {**a, **b}
DictMerge(a, b) ==
    [i \in 1..Len(a) |-> IF HasKey(b, a[i][1]) THEN <<a[i][1], Get(b, a[i][1])>> ELSE a[i]]
    \o SelectSeq(b, LAMBDA kv : ~HasKey(a, kv[1]))

\* a _resolve_domain_name that keeps an unknown name
_resolve_domain_name_NoFallback(reg, domain_name) ==
    IF domain_name = None THEN DEFAULT_DOMAIN ELSE domain_name

\* _resolve_domain_name: the name it returns
_resolve_domain_name(reg, domain_name) ==
    IF domain_name = None THEN DEFAULT_DOMAIN
    ELSE IF GetDomainRaises(reg, domain_name) THEN DEFAULT_DOMAIN
    ELSE domain_name

\* the registry after _resolve_domain_name (get_domain runs unless the name is None)
RegistryAfterResolve(reg, domain_name) ==
    IF domain_name = None THEN reg ELSE RegistryAfterGet(reg, domain_name)

\* _resolve_domain_name logs "Unknown domain ..., falling back to ..."
ResolveWarns(reg, domain_name) ==
    domain_name # None /\ GetDomainRaises(reg, domain_name)

\* s.split(",") of a str held as units
RECURSIVE SplitComma(_, _)
SplitComma(s, cur) ==
    IF s = <<>> THEN <<cur>>
    ELSE IF s[1] = "," THEN <<cur>> \o SplitComma(Tail(s), <<>>)
    ELSE SplitComma(Tail(s), Append(cur, s[1]))

\* is_relevant_summary of boost_summaries
IsRelevantSummary(doc, query_topics) ==
    /\ doc.doc_type \in {"topic_summary", "document_summary"}
    /\ \/ doc.topic_cluster # "" /\ doc.topic_cluster \in Range(query_topics)
       \/ /\ doc.topic_clusters # <<>>
          /\ Range(SplitComma(doc.topic_clusters, <<>>))
                 \cap {<<t>> : t \in Range(query_topics)} # {}

\* a boost that only cuts the list
boost_summaries_CutOnly(docs, query_topics, max_k) == Take(docs, max_k)

\* boost_summaries
boost_summaries(docs, query_topics, max_k) ==
    IF query_topics = <<>> \/ docs = <<>> THEN Take(docs, max_k)
    ELSE LET boosted == SelectSeq(docs, LAMBDA d : IsRelevantSummary(d, query_topics))
             rest == SelectSeq(docs, LAMBDA d : ~IsRelevantSummary(d, query_topics))
         IN  Take(boosted \o rest, max_k)

\* f"topic_{t}"
TopicSummaryId(t) ==
    CASE t = "wound_care" -> "topic_wound_care"
      [] t = "imaging" -> "topic_imaging"
      [] t = "billing_codes" -> "topic_billing_codes"
      [] t = "liability_coverage" -> "topic_liability_coverage"
      [] t = "um_uim" -> "topic_um_uim"
      [] t = "claims_handling" -> "topic_claims_handling"

\* a lookup of the summaries of every topic, matched by the query or not
TopicSummaryIds_AllTopics(query_topics) ==
    <<"topic_wound_care", "topic_imaging", "topic_billing_codes",
      "topic_liability_coverage", "topic_um_uim", "topic_claims_handling">>

\* the ids inject_topic_summaries looks up
TopicSummaryIds(query_topics) ==
    [i \in 1..Len(query_topics) |-> TopicSummaryId(query_topics[i])]

\* a new_injected that does not look at the doc_ids already present
NewInjected_NoCheck(injected, docs) == injected

\* new_injected of inject_topic_summaries, given what collection.get returned
NewInjected(injected, docs) ==
    SelectSeq(injected, LAMBDA d : d.doc_id \notin {docs[i].doc_id : i \in 1..Len(docs)})

\* inject_topic_summaries, given what collection.get returned
inject_topic_summaries(injected, docs, query_topics, max_k) ==
    IF query_topics = <<>> THEN Take(docs, max_k)
    ELSE Take(NewInjected(injected, docs) \o docs, max_k)

\* the dedup key of _deduplicate_docs
DedupKey(doc) == <<doc.doc_id, doc.chunk_index>>

MaxLen(doc_lists) ==
    IF doc_lists = <<>> THEN 0
    ELSE CHOOSE m \in {Len(doc_lists[i]) : i \in 1..Len(doc_lists)} :
            \A i \in 1..Len(doc_lists) : Len(doc_lists[i]) <= m

\* the loops of _deduplicate_docs from position pos, list li
RECURSIVE DedupFrom(_, _, _, _, _, _)
DedupFrom(doc_lists, max_k, pos, li, seen, merged) ==
    IF pos > MaxLen(doc_lists) THEN merged
    ELSE IF li > Len(doc_lists) THEN DedupFrom(doc_lists, max_k, pos + 1, 1, seen, merged)
    ELSE IF pos > Len(doc_lists[li])
         THEN DedupFrom(doc_lists, max_k, pos, li + 1, seen, merged)
    ELSE LET doc == doc_lists[li][pos]
         IN  IF DedupKey(doc) \in seen
             THEN DedupFrom(doc_lists, max_k, pos, li + 1, seen, merged)
             ELSE IF Len(merged) + 1 >= max_k THEN Append(merged, doc)
             ELSE DedupFrom(doc_lists, max_k, pos, li + 1,
                            seen \cup {DedupKey(doc)}, Append(merged, doc))

\* a merge that stops one chunk late
_deduplicate_docs_LateStop(doc_lists, max_k) == DedupFrom(doc_lists, max_k + 1, 1, 1, {}, <<>>)

\* _deduplicate_docs
_deduplicate_docs(doc_lists, max_k) == DedupFrom(doc_lists, max_k, 1, 1, {}, <<>>)

\* a store search the retriever issues
SearchReq(text, k, flt, role) == [text |-> text, k |-> k, flt |-> flt, role |-> role]

\* get_specialized_source_filter of the resolved domain (None when get_domain raises)
SpecFilter(reg, domain_name) ==
    LET resolved == _resolve_domain_name(reg, domain_name)
        reg1 == RegistryAfterResolve(reg, domain_name)
    IN  IF GetDomainRaises(reg1, resolved) THEN NoFilter
        ELSE Filter(<< <<"source", get_domain(resolved).specialized_source_filter>> >>)

\* _lcd_retrieve returns the plain filtered search: the caller pins another source
CallerPinsOtherSource(spec_filter, metadata_filter) ==
    /\ ~spec_filter.none /\ spec_filter.d # <<>>
    /\ ~metadata_filter.none
    /\ LET req_source == DictGet(spec_filter.d, "source")
       IN  /\ req_source \notin {None, ""}
           /\ DictGet(metadata_filter.d, "source") \notin {None, req_source}

\* source_filter of _lcd_retrieve (a dict, possibly empty)
SourceFilter(spec_filter, metadata_filter) ==
    LET sf == IF spec_filter.none THEN <<>> ELSE spec_filter.d
    IN  IF metadata_filter.none THEN sf ELSE DictMerge(metadata_filter.d, sf)

\* a floor that is added to k instead of capping it from below
LcdK_Sum(k) == k + LCD_RETRIEVAL_K

\* lcd_k as get_retriever sets it: max(k, LCD_RETRIEVAL_K)
LcdK(k) == Max(k, LCD_RETRIEVAL_K)

\* apply_topic_summary_boost, given the query's topics and the store
apply_topic_summary_boost(store, docs, query_topics, max_k) ==
    IF query_topics = <<>> THEN Take(docs, max_k)
    ELSE Take(boost_summaries(
                 inject_topic_summaries(collection_get(store, TopicSummaryIds(query_topics)),
                                        docs, query_topics, max_k),
                 query_topics, max_k), max_k)

\* the non-specialized branch of _get_relevant_documents
GenericRetrieve(store, query, k, metadata_filter, query_topics) ==
    apply_topic_summary_boost(store, similarity_search(store, query, k, metadata_filter),
                              query_topics, k)

\* a per_variant without the floor of 4
PerVariant_NoFloor(lcd_k) == lcd_k \div 3

\* per_variant of _lcd_retrieve
PerVariant(lcd_k) == Max(4, lcd_k \div 3)

\* an _lcd_retrieve whose baseline search drops the caller's filter
LcdSearches_UnfilteredBase(query, expanded_queries, source_filter, metadata_filter, lcd_k) ==
    LET per_variant == PerVariant(lcd_k)
        base == SearchReq(query, per_variant, NoFilter, "base")
    IN  IF source_filter # <<>>
        THEN <<SearchReq(query, per_variant, Filter(source_filter), "spec")>>
             \o [i \in 1..(Len(expanded_queries) - 1) |->
                    SearchReq(expanded_queries[i + 1], per_variant, Filter(source_filter),
                              "variant")]
             \o <<base>>
        ELSE <<base>>

\* the searches _lcd_retrieve issues on the specialized path, in order
LcdSearches(query, expanded_queries, source_filter, metadata_filter, lcd_k) ==
    LET per_variant == PerVariant(lcd_k)
        base == SearchReq(query, per_variant, metadata_filter, "base")
    IN  IF source_filter # <<>>
        THEN <<SearchReq(query, per_variant, Filter(source_filter), "spec")>>
             \o [i \in 1..(Len(expanded_queries) - 1) |->
                    SearchReq(expanded_queries[i + 1], per_variant, Filter(source_filter),
                              "variant")]
             \o <<base>>
        ELSE <<base>>

-----------------------------------------------------------------------------
(* State *)

NoRetriever ==
    [ kind |-> "none", k |-> 0, lcd_k |-> 0, metadata_filter |-> NoFilter,
      domain_name |-> None, collection |-> None, error |-> "none",
      requested |-> None ]

IdleCall ==
    [ pc |-> "idle", query |-> <<>>, path |-> "none", max_k |-> 0, plan |-> <<>>,
      lists |-> <<>>, searches |-> <<>>, topics |-> <<>>, injected |-> <<>>,
      docs |-> <<>>, result |-> <<>>, outcome |-> "none", failed |-> <<>> ]

NoPrev == [valid |-> FALSE, result |-> <<>>]

EmptyCache == [key \in {} |-> <<>>]

ExOff == [pc |-> "off"]

\* the values of k callers pass
Ks == {1, MaxK}

\* the metadata filters callers pass: None, flat {source: X}, and the
\* {"$and": [...]} form app.py _build_metadata_filter builds for two selections
CallerFilters ==
    { NoFilter,
      Filter(<< <<"source", "mcd">> >>),
      Filter(<< <<"source", "codes">> >>),
      Filter(<< <<"$and", << << <<"source", "iom">> >>, << <<"manual", "100-02">> >> >> >> >>) }

\* the queries callers ask
RetrievalQueries ==
    { <<"LCD", " ", "wound care">>,
      <<"wound care", "?">>,
      <<"hcpcs", " ", "modifier">>,
      <<"is", " ", "LCD">>,
      <<"PIP", " ", "liability">> }

Init ==
    /\ classes = << >>
    /\ imported = FALSE
    /\ fs = << >>
    /\ job = NoJob
    /\ bm25 = NoIndex
    /\ registry = {}
    /\ topicCache = EmptyCache
    /\ corpus \in Corpora
    /\ ret = NoRetriever
    /\ log = {}
    /\ call = IdleCall
    /\ prev = NoPrev
    /\ ex = ExOff

-----------------------------------------------------------------------------
(* get_retriever *)

\* how get_retriever gets its retriever: the import of query.hybrid succeeds
\* ("hybrid"); it fails and the caller passed a store ("store"); it fails and the
\* collection of the resolved domain is opened ("collection")
BuildModes == {"hybrid", "store", "collection"}

\* get_retriever(k, metadata_filter, store=..., domain_name=...)
GetRetriever(k, metadata_filter, domain_name, mode) ==
    /\ call.pc \in {"idle", "done"}
    /\ LET resolved == _resolve_domain_name(registry, domain_name)
           reg1 == RegistryAfterResolve(registry, domain_name)
           hybrid == mode = "hybrid"
           need_coll == mode = "collection"
           raises == need_coll /\ GetDomainRaises(reg1, resolved)
       IN  /\ registry' = IF need_coll THEN RegistryAfterGet(reg1, resolved) ELSE reg1
           /\ log' = IF ResolveWarns(registry, domain_name)
                     THEN log \cup {"unknown_domain_fallback"} ELSE log
           /\ ret' = [ kind |-> IF raises THEN "none" ELSE IF hybrid THEN "hybrid" ELSE "lcd",
                       k |-> k,
                       lcd_k |-> LcdK(k),
                       metadata_filter |-> metadata_filter,
                       domain_name |-> resolved,
                       collection |-> IF need_coll /\ ~raises
                                      THEN get_domain(resolved).collection_name
                                      ELSE None,
                       error |-> IF raises THEN "KeyError" ELSE "none",
                       requested |-> domain_name ]
    /\ call' = IdleCall
    /\ prev' = NoPrev
    /\ UNCHANGED <<classes, imported, fs, job, bm25, topicCache, corpus, ex>>

-----------------------------------------------------------------------------
(* LCDAwareRetriever._get_relevant_documents, step by step *)

\* the registry after the get_domain calls of classification and of _lcd_retrieve
RegistryAfterClassify(reg, domain_name) ==
    RegistryAfterGet(reg, IF domain_name = None THEN DEFAULT_DOMAIN ELSE domain_name)

\* entry: classification, and for a specialized query the head of _lcd_retrieve
Invoke(query) ==
    /\ ret.kind = "lcd"
    /\ call.pc \in {"idle", "done"}
    /\ LET patterns == _get_domain_query_patterns(registry, ret.domain_name)
           reg1 == RegistryAfterClassify(registry, ret.domain_name)
           spec_filter == SpecFilter(reg1, ret.domain_name)
           source_filter == SourceFilter(spec_filter, ret.metadata_filter)
           plain == <<SearchReq(query, ret.k, ret.metadata_filter, "plain")>>
           path == IF ~is_lcd_query(query, patterns) THEN "generic"
                   ELSE IF CallerPinsOtherSource(spec_filter, ret.metadata_filter)
                        THEN "skip" ELSE "lcd"
       IN  /\ registry' = IF path = "generic" THEN reg1
                          ELSE RegistryAfterResolve(reg1, ret.domain_name)
           /\ log' = IF path # "generic" /\ ResolveWarns(reg1, ret.domain_name)
                     THEN log \cup {"unknown_domain_fallback"} ELSE log
           /\ call' = [ IdleCall EXCEPT
                  !.pc = "search",
                  !.query = query,
                  !.path = path,
                  !.max_k = IF path = "lcd" THEN ret.lcd_k ELSE ret.k,
                  !.plan = IF path = "lcd"
                           THEN LcdSearches(query, expand_lcd_query(query, patterns),
                                            source_filter, ret.metadata_filter, ret.lcd_k)
                           ELSE plain,
                  !.lists = IF path = "lcd" /\ source_filter = <<>> THEN << <<>> >> ELSE <<>> ]
    /\ prev' = IF call.pc = "done" /\ call.outcome = "returned" /\ call.query = query
               THEN [valid |-> TRUE, result |-> call.result]
               ELSE NoPrev
    /\ UNCHANGED <<classes, imported, fs, job, bm25, topicCache, corpus, ret, ex>>

\* one store.similarity_search of the plan returns
SearchOk ==
    /\ call.pc = "search" /\ call.plan # <<>>
    /\ LET req == call.plan[1]
           got == similarity_search(corpus, req.text, req.k, req.flt)
           last == Len(call.plan) = 1
       IN  call' = [ call EXCEPT
               !.plan = Tail(call.plan),
               !.lists = Append(call.lists, got),
               !.searches = Append(call.searches, req),
               !.docs = IF last /\ call.path # "lcd" THEN got ELSE call.docs,
               !.result = IF last /\ call.path = "skip" THEN got ELSE call.result,
               !.outcome = IF last /\ call.path = "skip" THEN "returned" ELSE call.outcome,
               !.pc = IF ~last THEN "search"
                      ELSE IF call.path = "skip" THEN "done"
                      ELSE IF call.path = "lcd" THEN "merge" ELSE "topics" ]
    /\ UNCHANGED <<classes, imported, fs, job, bm25, registry, topicCache, corpus, ret, log, prev, ex>>

\* one store.similarity_search of the plan raises: nothing catches it
SearchRaises ==
    /\ call.pc = "search" /\ call.plan # <<>>
    /\ call' = [ call EXCEPT
           !.searches = Append(call.searches, call.plan[1]),
           !.failed = Append(call.failed, call.plan[1]),
           !.pc = "done",
           !.outcome = "raised" ]
    /\ UNCHANGED <<classes, imported, fs, job, bm25, registry, topicCache, corpus, ret, log, prev, ex>>

\* merged = _deduplicate_docs(doc_lists, max_k=self.lcd_k)
Merge ==
    /\ call.pc = "merge"
    /\ call' = [ call EXCEPT
           !.docs = _deduplicate_docs(call.lists, ret.lcd_k),
           !.pc = "topics" ]
    /\ UNCHANGED <<classes, imported, fs, job, bm25, registry, topicCache, corpus, ret, log, prev, ex>>

\* apply_topic_summary_boost: detect_query_topics; with no topic it returns docs[:max_k]
DetectTopics ==
    /\ call.pc = "topics"
    /\ LET cache1 == CacheAfterImport(topicCache, registry)
           reg1 == IF "__default__" \in DOMAIN topicCache THEN registry
                   ELSE RegistryAfterGet(registry, DEFAULT_DOMAIN)
           defs == _get_topic_definitions(cache1, reg1, ret.domain_name)
           topics == assign_topics(call.query, defs)
       IN  /\ topicCache' = CacheAfterGet(cache1, reg1, ret.domain_name)
           /\ registry' = IF CacheKey(ret.domain_name) \in DOMAIN cache1 THEN reg1
                          ELSE RegistryAfterClassify(reg1, ret.domain_name)
           /\ call' = IF topics = <<>>
                      THEN [ call EXCEPT !.pc = "done", !.outcome = "returned",
                                         !.result = Take(call.docs, call.max_k) ]
                      ELSE [ call EXCEPT !.pc = "inject", !.topics = topics ]
    /\ UNCHANGED <<classes, imported, fs, job, bm25, corpus, ret, log, prev, ex>>

\* inject_topic_summaries: collection.get returns
InjectOk ==
    /\ call.pc = "inject"
    /\ LET injected == collection_get(corpus, TopicSummaryIds(call.topics))
       IN  call' = [ call EXCEPT
               !.injected = NewInjected(injected, call.docs),
               !.docs = inject_topic_summaries(injected, call.docs, call.topics, call.max_k),
               !.pc = "boost" ]
    /\ UNCHANGED <<classes, imported, fs, job, bm25, registry, topicCache, corpus, ret, log, prev, ex>>

\* inject_topic_summaries: collection.get raises
InjectRaises ==
    /\ call.pc = "inject"
    /\ call' = [call EXCEPT !.pc = "done", !.outcome = "raised"]
    /\ UNCHANGED <<classes, imported, fs, job, bm25, registry, topicCache, corpus, ret, log, prev, ex>>

\* boost_summaries, then return docs[:max_k]
Boost ==
    /\ call.pc = "boost"
    /\ call' = [ call EXCEPT
           !.docs = boost_summaries(call.docs, call.topics, call.max_k),
           !.result = Take(boost_summaries(call.docs, call.topics, call.max_k), call.max_k),
           !.pc = "done",
           !.outcome = "returned" ]
    /\ UNCHANGED <<classes, imported, fs, job, bm25, registry, topicCache, corpus, ret, log, prev, ex>>

Next ==
    \/ \E k \in Ks, f \in CallerFilters, d \in DomainNames \cup {None},
          mode \in BuildModes :
          GetRetriever(k, f, d, mode)
    \/ \E q \in RetrievalQueries : Invoke(q)
    \/ SearchOk
    \/ SearchRaises
    \/ Merge
    \/ DetectTopics
    \/ InjectOk
    \/ InjectRaises
    \/ Boost

Spec == Init /\ [][Next]_vars

-----------------------------------------------------------------------------
(* The analyzer functions applied to drawn inputs *)

\* strings of at most n units in which no two words are adjacent
WellFormed(s) == \A i \in 1..(Len(s) - 1) : ~(s[i] \in Words /\ s[i + 1] \in Words)
Strings(n) == {s \in UNION {[1..m -> Units] : m \in 0..n} : WellFormed(s)}

\* _get_domain_patterns(): the DEFAULT_DOMAIN's data, or ({}, {}, [], {})
_get_domain_patterns(reg) ==
    IF GetDomainRaises(reg, DEFAULT_DOMAIN)
    THEN [ source_patterns |-> <<>>, source_expansions |-> <<>>, synonym_map |-> <<>>,
           default_source_relevance |-> <<>> ]
    ELSE LET domain == get_domain(DEFAULT_DOMAIN)
         IN  [ source_patterns |-> domain.source_patterns,
               source_expansions |-> domain.source_expansions,
               synonym_map |-> domain.synonym_map,
               default_source_relevance |-> domain.default_source_relevance ]

\* the pattern data a call works with: the domain's, passed explicitly, or, with
\* the parameters left None, what _get_domain_patterns() returns
PatternsFor(reg, domain) ==
    IF domain = None THEN _get_domain_patterns(reg)
    ELSE [ source_patterns |-> get_domain(domain).source_patterns,
           source_expansions |-> get_domain(domain).source_expansions,
           synonym_map |-> get_domain(domain).synonym_map,
           default_source_relevance |-> get_domain(domain).default_source_relevance ]

ExInput(q, d) ==
    [ pc |-> "input", query |-> q, domain |-> d, op |-> "none",
      variants |-> <<>>, relevance |-> <<>>, text |-> <<>> ]

InitEx ==
    /\ classes = << >>
    /\ imported = FALSE
    /\ fs = << >>
    /\ job = NoJob
    /\ bm25 = NoIndex
    /\ registry = {}
    /\ topicCache = EmptyCache
    /\ corpus = <<>>
    /\ ret = NoRetriever
    /\ log = {}
    /\ call = IdleCall
    /\ prev = NoPrev
    /\ ex \in {ExInput(q, d) : q \in Strings(MaxQueryLen), d \in DomainNames \cup {None}}

\* expand_lcd_query(query, domain_name)
ExpandLcd ==
    /\ ex.pc = "input"
    /\ ex' = [ ex EXCEPT
           !.pc = "done", !.op = "expand_lcd_query",
           !.variants = expand_lcd_query(ex.query,
                            _get_domain_query_patterns(registry, ex.domain)) ]
    /\ registry' = RegistryAfterClassify(registry, ex.domain)
    /\ UNCHANGED <<classes, imported, fs, job, bm25, topicCache, corpus, ret, log, call, prev>>

\* what a variant returned by expand_cross_source_query carries besides its
\* text: the function returns list[str]
CarriedFilter(variant) == NoFilter

\* expand_cross_source_query(query, ...), source_expansions the profile's or
\* the caller's own (here: the profile's less its last entry)
ExpandCrossSource ==
    /\ ex.pc = "input" /\ ex.domain \in BuiltinDomains \cup {None}
    /\ LET p == PatternsFor(registry, ex.domain)
       IN  \E source_expansions \in {p.source_expansions, SelectSeq(p.source_expansions, LAMBDA kv : kv # p.source_expansions[Len(p.source_expansions)])} :
             ex' = [ ex EXCEPT
                 !.pc = "done", !.op = "expand_cross_source_query",
                 !.variants = expand_cross_source_query(ex.query, p.source_patterns,
                                  source_expansions, p.synonym_map,
                                  p.default_source_relevance) ] @@ [source_expansions |-> source_expansions]
    /\ registry' = IF ex.domain = None THEN RegistryAfterGet(registry, DEFAULT_DOMAIN)
                   ELSE registry
    /\ UNCHANGED <<classes, imported, fs, job, bm25, topicCache, corpus, ret, log, call, prev>>

\* a source_patterns dict a caller passes: a kind with fewer than three
\* patterns, one with six, one with none
CallerSourcePatterns ==
    << <<"short", << {"hcpcs"}, {"modifier"} >> >>,
       <<"six", << {"LCD"}, {"wound care"}, {"imaging"}, {"PIP"}, {"premium"}, {"policy"} >> >>,
       <<"none", << >> >> >>

\* detect_source_relevance(query, source_patterns, default_relevance),
\* source_patterns the profile's or the caller's own
DetectSourceRelevance ==
    /\ ex.pc = "input" /\ ex.domain \in BuiltinDomains \cup {None}
    /\ LET p == PatternsFor(registry, ex.domain)
       IN  \E source_patterns \in {p.source_patterns, CallerSourcePatterns} :
             ex' = [ ex EXCEPT
                 !.pc = "done", !.op = "detect_source_relevance",
                 !.relevance = detect_source_relevance(ex.query, source_patterns,
                                   p.default_source_relevance) ] @@ [source_patterns |-> source_patterns]
    /\ registry' = IF ex.domain = None THEN RegistryAfterGet(registry, DEFAULT_DOMAIN)
                   ELSE registry
    /\ UNCHANGED <<classes, imported, fs, job, bm25, topicCache, corpus, ret, log, call, prev>>

\* _apply_synonyms(query, synonym_map)
ApplySynonyms ==
    /\ ex.pc = "input" /\ ex.domain \in BuiltinDomains \cup {None}
    /\ ex' = [ ex EXCEPT
           !.pc = "done", !.op = "_apply_synonyms",
           !.text = _apply_synonyms(ex.query, PatternsFor(registry, ex.domain).synonym_map) ]
    /\ registry' = IF ex.domain = None THEN RegistryAfterGet(registry, DEFAULT_DOMAIN)
                   ELSE registry
    /\ UNCHANGED <<classes, imported, fs, job, bm25, topicCache, corpus, ret, log, call, prev>>

NextEx ==
    \/ ExpandLcd
    \/ ExpandCrossSource
    \/ DetectSourceRelevance
    \/ ApplySynonyms

SpecEx == InitEx /\ [][NextEx]_vars

-----------------------------------------------------------------------------
(* Topic tagging at ingest: ingest/cluster.py *)

\* a tagging that adds the new names to the topic_clusters the chunk carries
TagDocument_KeepOld(doc, topics) ==
    IF topics # <<>>
    THEN [doc EXCEPT !.topic_clusters =
              IF doc.topic_clusters = <<>> THEN Join(",", topics)
              ELSE doc.topic_clusters \o <<",">> \o Join(",", topics)]
    ELSE doc

\* the loop body of tag_documents_with_topics: meta["topic_clusters"] = ",".join(topics)
TagDocument(doc, topics) ==
    IF topics # <<>> THEN [doc EXCEPT !.topic_clusters = Join(",", topics)] ELSE doc

\* tag_documents_with_topics, given the topic definitions
tag_documents_with_topics(documents, topic_defs) ==
    [i \in 1..Len(documents) |->
        TagDocument(documents[i], assign_topics(documents[i].content, topic_defs))]

\* the topic_clusters values chunks carry when they come to be tagged
PriorClusters == { <<>>, <<"imaging">>, <<"wound_care", ",", "um_uim">> }

\* a chunk to be tagged
RawChunk(content, clusters) == Doc("c_0", "c", 0, "iom", "", "chunk", "", clusters, content)

TagInput(content, clusters, d) ==
    [ pc |-> "input", documents |-> <<RawChunk(content, clusters)>>, domain |-> d,
      tagged |-> <<>> ]

InitTag ==
    /\ classes = << >>
    /\ imported = FALSE
    /\ fs = << >>
    /\ job = NoJob
    /\ bm25 = NoIndex
    /\ registry = {}
    /\ topicCache = EmptyCache
    /\ corpus = <<>>
    /\ ret = NoRetriever
    /\ log = {}
    /\ call = IdleCall
    /\ prev = NoPrev
    /\ ex \in {TagInput(c, p, d) : c \in Strings(MaxQueryLen), p \in PriorClusters,
                                   d \in DomainNames \cup {None}}

\* tag_documents_with_topics(documents, domain_name)
TagDocuments ==
    /\ ex.pc = "input"
    /\ LET cache1 == CacheAfterImport(topicCache, registry)
           reg1 == RegistryAfterGet(registry, DEFAULT_DOMAIN)
           defs == _get_topic_definitions(cache1, reg1, ex.domain)
       IN  /\ topicCache' = CacheAfterGet(cache1, reg1, ex.domain)
           /\ registry' = RegistryAfterClassify(reg1, ex.domain)
           /\ ex' = [ ex EXCEPT !.pc = "done",
                                !.tagged = tag_documents_with_topics(ex.documents, defs) ]
    /\ UNCHANGED <<classes, imported, fs, job, bm25, corpus, ret, log, call, prev>>

NextTag == TagDocuments

SpecTag == InitTag /\ [][NextTag]_vars

-----------------------------------------------------------------------------
(* The domain registry as callers drive it: domains/__init__.py *)

\* classes a caller may register besides the built-in ones: a subclass of the
\* auto profile under a new name, a replacement of the medicare profile and an
\* unrelated profile
PluginClasses == { [AutoInsuranceDomain EXCEPT !.name = "auto_fleet"], [MedicareDomain EXCEPT !.collection_name = "medicare_v2"], [MedicareDomain EXCEPT !.name = "home", !.collection_name = "home_insurance"] }

\* the names callers look up
LookupNames == DomainNames \cup {"auto_fleet", "auto_insurance", "home"}

\* sorted() over the names in use
SortedNames == <<"auto", "auto_fleet", "auto_insurance", "home", "medicare", "medicare_v2", "nonexistent_domain_xyz">>

\* a register_domain that files the class under its collection name
register_domain_ByCollection(reg, cls) == [n \in DOMAIN reg \cup {cls.collection_name} |-> IF n = cls.collection_name THEN cls ELSE reg[n]]

\* register_domain(cls): _REGISTRY[cls().name] = cls
register_domain(reg, cls) == [n \in DOMAIN reg \cup {cls.name} |-> IF n = cls.name THEN cls ELSE reg[n]]

\* _discover_domains() on _REGISTRY: the first import of the built-in packages
\* runs their @register_domain decorators, a later import runs nothing
DiscoverClasses(reg, imp) == IF imp THEN reg ELSE register_domain(register_domain(reg, MedicareDomain), AutoInsuranceDomain)

\* _REGISTRY after get_domain(name)
ClassesAfterGet(reg, imp, name) == IF name \in DOMAIN reg THEN reg ELSE DiscoverClasses(reg, imp)

\* list_domains() after discovery: sorted(_REGISTRY.keys())
list_domains(reg) == SelectSeq(SortedNames, LAMBDA n : n \in DOMAIN reg)

InitReg ==
    /\ \E imp \in BOOLEAN :
        /\ imported = imp
        /\ classes = DiscoverClasses(<< >>, ~imp)
        /\ registry = DOMAIN classes
    /\ topicCache = EmptyCache
    /\ corpus = <<>>
    /\ ret = NoRetriever
    /\ log = {}
    /\ call = IdleCall
    /\ prev = NoPrev
    /\ ex = ExOff
    /\ fs = << >>
    /\ job = NoJob
    /\ bm25 = NoIndex

\* register_domain(cls)
RegisterDomain ==
    /\ \E cls \in PluginClasses \cup {MedicareDomain, AutoInsuranceDomain} :
        /\ classes' = register_domain(classes, cls)
        /\ ex' = [pc |-> "register_domain", cls |-> cls]
    /\ registry' = DOMAIN classes'
    /\ UNCHANGED <<imported, topicCache, corpus, ret, log, call, prev, fs, job, bm25>>

\* get_domain(name)
GetDomain ==
    /\ \E name \in LookupNames :
        /\ classes' = ClassesAfterGet(classes, imported, name)
        /\ imported' = (imported \/ name \notin DOMAIN classes)
        /\ registry' = DOMAIN classes'
        /\ ex' = IF name \notin DOMAIN classes'
                 THEN [pc |-> "get_domain", name |-> name, raised |-> "KeyError"]
                 ELSE [pc |-> "get_domain", name |-> name, raised |-> None, result |-> classes'[name]]
    /\ UNCHANGED <<topicCache, corpus, ret, log, call, prev, fs, job, bm25>>

\* list_domains()
ListDomains ==
    /\ classes' = DiscoverClasses(classes, imported)
    /\ imported' = TRUE
    /\ registry' = DOMAIN classes'
    /\ ex' = [pc |-> "list_domains", result |-> list_domains(classes')]
    /\ UNCHANGED <<topicCache, corpus, ret, log, call, prev, fs, job, bm25>>

NextReg == RegisterDomain \/ GetDomain \/ ListDomains

SpecReg == InitReg /\ [][NextReg]_vars

-----------------------------------------------------------------------------
(* The hybrid fuser: reciprocal-rank fusion and source diversification *)

NumLists == 2   \* result lists handed to the fusion
MaxRank == 3    \* longest result list

\* the smoothing constant of reciprocal-rank fusion
rrf_k == 60

\* the chunks the searches return, in lexicographic (doc_id, chunk_index) order
SortedChunks == <<D1, D2, D3>>

\* ranked lists: no chunk twice in a list
RankedLists == {l \in UNION {[1..n -> Range(SortedChunks)] : n \in 0..MaxRank} : \A i, j \in 1..Len(l) : i # j => DedupKey(l[i]) # DedupKey(l[j])}

\* rank_l(c), from 1; 0 when c is not in l
RankIn(l, c) == IF \E i \in 1..Len(l) : DedupKey(l[i]) = DedupKey(c) THEN CHOOSE i \in 1..Len(l) : DedupKey(l[i]) = DedupKey(c) ELSE 0

\* the common denominator of the scores: the product of rrf_k + r over the ranks r
RrfScale ==
    LET RECURSIVE Product(_)
        Product(n) == IF n = 0 THEN 1 ELSE (rrf_k + n) * Product(n - 1)
    IN  Product(MaxRank)

\* sum over the lists l holding c of 1 / (rrf_k + rank_l(c)), as the exact
\* numerator over RrfScale
RECURSIVE RrfScore(_, _)
RrfScore(lists, c) ==
    IF lists = <<>> THEN 0
    ELSE LET r == RankIn(Head(lists), c)
         IN  RrfScore(Tail(lists), c) + (IF r = 0 THEN 0 ELSE RrfScale \div (rrf_k + r))

\* the earliest rank of c across the lists holding it
EarliestRank(lists, c) ==
    LET ranks == {RankIn(lists[i], c) : i \in 1..Len(lists)} \ {0}
    IN  CHOOSE r \in ranks : \A q \in ranks : r <= q

\* the candidates in the order the lists are walked, each (doc_id, chunk_index) once
RECURSIVE Candidates(_, _)
Candidates(lists, seen) ==
    IF lists = <<>> THEN <<>>
    ELSE LET new == SelectSeq(Head(lists), LAMBDA c : DedupKey(c) \notin seen)
         IN  new \o Candidates(Tail(lists), seen \cup {DedupKey(c) : c \in Range(new)})

\* a ranking order without the final (doc_id, chunk_index) tie-break
RanksBefore_NoKeyTieBreak(lists, a, b) ==
    LET sa == RrfScore(lists, a)
        sb == RrfScore(lists, b)
    IN  \/ sa > sb
        \/ sa = sb /\ EarliestRank(lists, a) < EarliestRank(lists, b)

\* a ranks before b: higher score, then lower earliest rank, then lower
\* (doc_id, chunk_index)
RanksBefore(lists, a, b) ==
    LET sa == RrfScore(lists, a)
        sb == RrfScore(lists, b)
        key(c) == CHOOSE i \in 1..Len(SortedChunks) : DedupKey(SortedChunks[i]) = DedupKey(c)
    IN  \/ sa > sb
        \/ sa = sb /\ EarliestRank(lists, a) < EarliestRank(lists, b)
        \/ sa = sb /\ EarliestRank(lists, a) = EarliestRank(lists, b) /\ key(a) < key(b)

\* reciprocal-rank fusion: the candidates sorted (stably) by RanksBefore
rrf_fuse(lists) ==
    LET cands == Candidates(lists, {})
        ahead(i) == {j \in 1..Len(cands) : \/ RanksBefore(lists, cands[j], cands[i])
                                           \/ j < i /\ ~RanksBefore(lists, cands[i], cands[j])}
    IN  [n \in 1..Len(cands) |-> cands[CHOOSE i \in 1..Len(cands) : Cardinality(ahead(i)) = n - 1]]

\* the arguments of a fusion
FuseInput(lists) == [pc |-> "fuse_input", lists |-> lists]

InitFuse ==
    /\ ex \in {FuseInput(lists) : lists \in [1..NumLists -> RankedLists]}
    /\ registry = {}
    /\ topicCache = EmptyCache
    /\ corpus = <<>>
    /\ ret = NoRetriever
    /\ log = {}
    /\ call = IdleCall
    /\ prev = NoPrev
    /\ classes = << >>
    /\ imported = FALSE
    /\ fs = << >>
    /\ job = NoJob
    /\ bm25 = NoIndex

\* the fusion of the lists, and of the same lists supplied in another order
Fuse ==
    /\ ex.pc = "fuse_input"
    /\ \E p \in Permutations(1..NumLists) :
        LET permuted == [i \in 1..NumLists |-> ex.lists[p[i]]]
        IN  ex' = [pc |-> "fused", lists |-> ex.lists, permuted |-> permuted, fused |-> rrf_fuse(ex.lists), fused_permuted |-> rrf_fuse(permuted)]
    /\ UNCHANGED <<classes, imported, fs, job, bm25, registry, topicCache, corpus, ret, log, call, prev>>

\* the slots one source may take among the top k_final
SourceCap(k_final) == (k_final + 1) \div 2

\* the walk over the fused list: a chunk takes the next top slot unless the
\* slots are full or its source is at the cap; the others follow in fused order
RECURSIVE DiversifyWalk(_, _, _, _)
DiversifyWalk(rest, k_final, taken, deferred) ==
    IF rest = <<>> THEN taken \o deferred
    ELSE LET c == Head(rest)
             same == Cardinality({i \in 1..Len(taken) : taken[i].source = c.source})
         IN  IF Len(taken) < k_final /\ same < SourceCap(k_final)
             THEN DiversifyWalk(Tail(rest), k_final, Append(taken, c), deferred)
             ELSE DiversifyWalk(Tail(rest), k_final, taken, Append(deferred, c))

\* a diversification that leaves the fused order as it is
diversify_Unchanged(fused, k_final, pinned) == fused

\* source diversification, skipped when the caller pinned a single source
diversify(fused, k_final, pinned) == IF pinned THEN fused ELSE DiversifyWalk(fused, k_final, <<>>, <<>>)

\* the diversification of a fused list for a caller asking for k_final chunks
Diversify ==
    /\ ex.pc = "fused"
    /\ \E k_final \in 1..Len(SortedChunks) + 1, pinned \in BOOLEAN :
        ex' = [pc |-> "diversified", fused |-> ex.fused, k_final |-> k_final, pinned |-> pinned, result |-> diversify(ex.fused, k_final, pinned)]
    /\ UNCHANGED <<classes, imported, fs, job, bm25, registry, topicCache, corpus, ret, log, call, prev>>

NextFuse == Fuse \/ Diversify

SpecFuse == InitFuse /\ [][NextFuse]_vars

-----------------------------------------------------------------------------
(* The keyword retriever: the lazy, one-shot build of the BM25 index *)

NumCallers == 3   \* concurrent first retrieval calls

Callers == 1..NumCallers

\* a first caller that always starts a build while the index is not built
Admit_AlwaysBuild(state) == IF state = "built" THEN "searching" ELSE "building"

\* the one-shot initializer, taken atomically: the first caller builds, a
\* caller arriving during the build waits, a later one proceeds
Admit(state) == IF state = "unbuilt" THEN "building" ELSE IF state = "building" THEN "waiting" ELSE "searching"

\* the index before first use
UnbuiltIndex == [pc |-> "on", state |-> "unbuilt", index |-> <<>>, builds |-> 0, at |-> [c \in Callers |-> "idle"], waited |-> {}, searched |-> [c \in Callers |-> None]]

InitBm25 ==
    /\ bm25 = UnbuiltIndex
    /\ corpus \in Corpora
    /\ registry = {}
    /\ topicCache = EmptyCache
    /\ ret = NoRetriever
    /\ log = {}
    /\ call = IdleCall
    /\ prev = NoPrev
    /\ ex = ExOff
    /\ classes = << >>
    /\ imported = FALSE
    /\ fs = << >>
    /\ job = NoJob

\* a caller reaches the keyword search and passes the initializer
Enter(c) ==
    /\ bm25.at[c] = "idle"
    /\ LET to == Admit(bm25.state)
       IN  bm25' = [bm25 EXCEPT !.at[c] = to,
                                !.state = IF to = "building" THEN "building" ELSE @,
                                !.index = IF to = "building" THEN <<>> ELSE @,
                                !.builds = IF to = "building" THEN @ + 1 ELSE @,
                                !.waited = IF to = "waiting" THEN @ \cup {c} ELSE @]
    /\ UNCHANGED <<classes, imported, fs, job, registry, topicCache, corpus, ret, log, call, prev, ex>>

\* the builder indexes the next chunk of the corpus
IndexChunk(c) ==
    /\ bm25.at[c] = "building"
    /\ Len(bm25.index) < Len(corpus)
    /\ bm25' = [bm25 EXCEPT !.index = Append(@, corpus[Len(@) + 1])]
    /\ UNCHANGED <<classes, imported, fs, job, registry, topicCache, corpus, ret, log, call, prev, ex>>

\* the builder has indexed every chunk: it publishes the index and signals completion
Complete(c) ==
    /\ bm25.at[c] = "building"
    /\ Len(bm25.index) >= Len(corpus)
    /\ bm25' = [bm25 EXCEPT !.state = "built", !.at[c] = "searching"]
    /\ UNCHANGED <<classes, imported, fs, job, registry, topicCache, corpus, ret, log, call, prev, ex>>

\* a waiting caller is released by the completion signal
Proceed(c) ==
    /\ bm25.at[c] = "waiting"
    /\ bm25.state = "built"
    /\ bm25' = [bm25 EXCEPT !.at[c] = "searching"]
    /\ UNCHANGED <<classes, imported, fs, job, registry, topicCache, corpus, ret, log, call, prev, ex>>

\* a caller searches the index as it is
SearchIndex(c) ==
    /\ bm25.at[c] = "searching"
    /\ bm25' = [bm25 EXCEPT !.at[c] = "done", !.searched[c] = bm25.index]
    /\ UNCHANGED <<classes, imported, fs, job, registry, topicCache, corpus, ret, log, call, prev, ex>>

NextBm25 == \E c \in Callers : Enter(c) \/ IndexChunk(c) \/ Complete(c) \/ Proceed(c) \/ SearchIndex(c)

SpecBm25 == InitBm25 /\ [][NextBm25]_vars

-----------------------------------------------------------------------------
(* Auto insurance downloads and extraction: domains/auto/download.py, extract.py *)

\* a path: its directory (a sequence of names), the stem and the suffix of its name
Path(dir, stem, suffix) == [dir |-> dir, stem |-> stem, suffix |-> suffix]

\* path.write_bytes / write_text: the file system with content at path
Write(fsys, path, content) == [p \in DOMAIN fsys \cup {path} |-> IF p = path THEN content ELSE fsys[p]]

\* REGULATIONS_URLS (two of its ten entries: a model law and a chart)
REGULATIONS_URLS ==
    << [key |-> "mo-710", url |-> "https://content.naic.org/sites/default/files/model-law-710.pdf"],
       [key |-> "chart-pa-30", url |-> "https://content.naic.org/sites/default/files/model-law-chart-pa-30-compulsory-motor-vehicle-insurance.pdf"] >>

\* FORMS_URLS (one of its eleven entries, an HTML guide), with the stem
\* sanitize_filename_from_url gives its URL
FORMS_URLS == << [key |-> "TX", url |-> "https://www.tdi.texas.gov/pubs/consumer/cb020.html", stem |-> "cb020"] >>

\* FORMS_HTML_KEYS, restricted to the keys of FORMS_URLS above
FORMS_HTML_KEYS == {"TX"}

\* the table a download operation walks
UrlsOf(kind) == IF kind = "regulations" THEN REGULATIONS_URLS ELSE FORMS_URLS

\* dest of an entry: raw_dir/regulations/naic/{key}.pdf, raw_dir/forms/{key}/{name}
Dest(kind, e) ==
    IF kind = "regulations" THEN Path(<<"raw", "regulations", "naic">>, e.key, ".pdf")
    ELSE Path(<<"raw", "forms", e.key>>, e.stem, IF e.key \in FORMS_HTML_KEYS THEN ".html" ELSE ".pdf")

\* manifest_path = out_base / "manifest.json"
ManifestPath(kind) == Path(IF kind = "regulations" THEN <<"raw", "regulations", "naic">> ELSE <<"raw", "forms">>, "manifest", ".json")

\* what the servers send with status 200: the chart is an image-only PDF,
\* the other documents carry text
RemoteBody(url) == IF url = REGULATIONS_URLS[2].url THEN "remote image-only document" ELSE "remote document"

\* file_sha256(path)
file_sha256(fsys, path) == IF path \in DOMAIN fsys THEN <<"sha256", fsys[path]>> ELSE None

\* a download that never takes the file on disk for done
_download_url_to_file_NoSkip(fsys, url, dest, force, status) ==
    IF status = 200 THEN [fs |-> Write(fsys, dest, RemoteBody(url)), ok |-> TRUE, requests |-> <<url>>, raised |-> FALSE]
    ELSE [fs |-> fsys, ok |-> FALSE, requests |-> <<url>>, raised |-> status \notin {404, 403}]

\* _download_url_to_file(client, url, dest, force=force), the server answering
\* with status: the file system after it, the value returned, the requests
\* issued and whether HTTPStatusError propagates
_download_url_to_file(fsys, url, dest, force, status) ==
    IF dest \in DOMAIN fsys /\ ~force THEN [fs |-> fsys, ok |-> TRUE, requests |-> <<>>, raised |-> FALSE]
    ELSE IF status = 200 THEN [fs |-> Write(fsys, dest, RemoteBody(url)), ok |-> TRUE, requests |-> <<url>>, raised |-> FALSE]
    ELSE [fs |-> fsys, ok |-> FALSE, requests |-> <<url>>, raised |-> status \notin {404, 403}]

\* the loop of download_regulations / download_forms over the entries todo;
\* st holds the file system, files_with_hashes and the requests so far
RECURSIVE DownloadLoop(_, _, _, _, _)
DownloadLoop(kind, todo, st, force, status) ==
    IF todo = <<>> THEN st
    ELSE LET e == Head(todo)
             dest == Dest(kind, e)
             r == _download_url_to_file(st.fs, e.url, dest, force, status[e.url])
         IN  IF kind = "forms" /\ dest \in DOMAIN st.fs /\ ~force
             THEN DownloadLoop(kind, Tail(todo), [st EXCEPT !.files = Append(@, <<dest, file_sha256(st.fs, dest)>>)], force, status)
             ELSE IF r.raised THEN [st EXCEPT !.requests = @ \o r.requests, !.raised = TRUE]
             ELSE DownloadLoop(kind, Tail(todo), [fs |-> r.fs, files |-> IF r.ok THEN Append(st.files, <<dest, file_sha256(r.fs, dest)>>) ELSE st.files, requests |-> st.requests \o r.requests, raised |-> FALSE], force, status)

\* download_regulations(raw_dir, force=force) / download_forms(raw_dir, force=force):
\* the loop, then write_manifest unless an error propagated
download(kind, fsys, force, status) ==
    LET r == DownloadLoop(kind, UrlsOf(kind), [fs |-> fsys, files |-> <<>>, requests |-> <<>>, raised |-> FALSE], force, status)
    IN  IF r.raised THEN r ELSE [r EXCEPT !.fs = Write(@, ManifestPath(kind), [files |-> r.files, sources |-> [i \in 1..Len(UrlsOf(kind)) |-> UrlsOf(kind)[i].url]])]

\* the raw paths in sorted() order
SortedRawPaths == << Dest("forms", FORMS_URLS[1]), ManifestPath("forms"), Dest("regulations", REGULATIONS_URLS[2]), ManifestPath("regulations"), Dest("regulations", REGULATIONS_URLS[1]) >>

\* _extract_pdf_text / _extract_html_text of a readable file
ExtractedText(content) == IF content = "remote image-only document" THEN "" ELSE <<"text of", content>>

\* the loop of _extract_from_dir over the files todo (sorted); unreadable are
\* the files whose reading raises OSError; st holds the file system and written
RECURSIVE ExtractLoop(_, _, _, _, _)
ExtractLoop(kind, todo, st, force, unreadable) ==
    IF todo = <<>> THEN st
    ELSE LET path == Head(todo)
             text == ExtractedText(st.fs[path])
             out_dir == IF kind = "regulations" THEN <<"processed", "regulations">> ELSE <<"processed", "forms", path.dir[3]>>
             out_txt == Path(out_dir, path.stem, ".txt")
             out_meta == Path(out_dir, path.stem, ".meta.json")
             meta == [source |-> kind, doc_id |-> <<kind, "_", path.stem>>, source_file |-> <<path.stem, path.suffix>>]
         IN  IF path.suffix \notin {".pdf", ".html", ".htm"} \/ path \in unreadable \/ text = ""
             THEN ExtractLoop(kind, Tail(todo), st, force, unreadable)
             ELSE IF ~force /\ out_txt \in DOMAIN st.fs /\ out_meta \in DOMAIN st.fs
             THEN ExtractLoop(kind, Tail(todo), [st EXCEPT !.written = Append(@, <<out_txt, out_meta>>)], force, unreadable)
             ELSE ExtractLoop(kind, Tail(todo), [fs |-> Write(Write(st.fs, out_txt, text), out_meta, meta), written |-> Append(st.written, <<out_txt, out_meta>>)], force, unreadable)

\* the raw files extract_regulations / extract_forms walk, in sorted order
RawFiles(kind, fsys) == SelectSeq(SortedRawPaths, LAMBDA p : p \in DOMAIN fsys /\ p.dir[2] = kind /\ Len(p.dir) = 3)

\* extract_regulations(processed_dir, raw_dir, force=force) / extract_forms(...)
extract(kind, fsys, force, unreadable) == ExtractLoop(kind, RawFiles(kind, fsys), [fs |-> fsys, written |-> <<>>], force, unreadable)

InitFiles ==
    /\ \E present \in SUBSET {p \in Range(SortedRawPaths) : p.suffix # ".json"} : fs = [p \in present |-> "local document"]
    /\ job = NoJob
    /\ registry = {}
    /\ topicCache = EmptyCache
    /\ corpus = <<>>
    /\ ret = NoRetriever
    /\ log = {}
    /\ call = IdleCall
    /\ prev = NoPrev
    /\ ex = ExOff
    /\ classes = << >>
    /\ imported = FALSE
    /\ bm25 = NoIndex

\* download_regulations / download_forms
Download ==
    /\ \E kind \in {"regulations", "forms"}, force \in BOOLEAN :
        \E status \in [{UrlsOf(kind)[i].url : i \in 1..Len(UrlsOf(kind))} -> {200, 404, 500}] :
            LET r == download(kind, fs, force, status)
            IN  /\ fs' = r.fs
                /\ job' = [pc |-> "download", kind |-> kind, force |-> force, before |-> fs, requests |-> r.requests, raised |-> r.raised]
    /\ UNCHANGED <<classes, imported, bm25, registry, topicCache, corpus, ret, log, call, prev, ex>>

\* extract_regulations(processed_dir, raw_dir, force=force)
Extract ==
    /\ \E force \in BOOLEAN :
        \E unreadable \in {{}} \cup {{p} : p \in Range(RawFiles("regulations", fs))} :
            LET r == extract("regulations", fs, force, unreadable)
            IN  /\ fs' = r.fs
                /\ job' = [pc |-> "extract", kind |-> "regulations", force |-> force, before |-> fs, written |-> r.written, unreadable |-> unreadable]
    /\ UNCHANGED <<classes, imported, bm25, registry, topicCache, corpus, ret, log, call, prev, ex>>

NextFiles == Download \/ Extract

SpecFiles == InitFiles /\ [][NextFiles]_vars

-----------------------------------------------------------------------------
(* apply_topic_summary_boost on its own *)

\* the candidate lists handed to apply_topic_summary_boost: at most max_k
\* distinct chunks (a search or _deduplicate_docs bounded by max_k produced them)
CandidateLists(max_k) == {l \in UNION {[1..n -> {D1, D3, D6, D7}] : n \in 0..Min(max_k, MaxCandidates)} : \A i, j \in 1..Len(l) : i # j => l[i] # l[j]}

\* the arguments of apply_topic_summary_boost, the query given by its topics
BoostInput(store, docs, query_topics, max_k) == [pc |-> "boost_input", store |-> store, docs |-> docs, query_topics |-> query_topics, max_k |-> max_k]

InitBoost ==
    /\ ex \in {BoostInput(store, docs, topics, max_k) : store \in Corpora, docs \in CandidateLists(MaxCandidates), topics \in {<<>>, <<"wound_care">>, <<"imaging">>, <<"imaging", "wound_care">>}, max_k \in 1..MaxCandidates}
    /\ Len(ex.docs) <= ex.max_k
    /\ registry = {}
    /\ topicCache = EmptyCache
    /\ corpus = ex.store
    /\ ret = NoRetriever
    /\ log = {}
    /\ call = IdleCall
    /\ prev = NoPrev
    /\ classes = << >>
    /\ imported = FALSE
    /\ fs = << >>
    /\ job = NoJob
    /\ bm25 = NoIndex

\* apply_topic_summary_boost(store, docs, query, max_k)
ApplyBoost ==
    /\ ex.pc = "boost_input"
    /\ ex' = [ex EXCEPT !.pc = "boosted"] @@ [injected |-> NewInjected(collection_get(ex.store, TopicSummaryIds(ex.query_topics)), ex.docs), result |-> apply_topic_summary_boost(ex.store, ex.docs, ex.query_topics, ex.max_k)]
    /\ UNCHANGED <<classes, imported, fs, job, bm25, registry, topicCache, corpus, ret, log, call, prev>>

\* inject_topic_summaries(store, docs, query_topics, max_k): lookups holds the
\* collection.get calls made (their ids), found what the last one returned
Inject ==
    /\ ex.pc = "boost_input"
    /\ LET ids == TopicSummaryIds(ex.query_topics)
           found == IF ex.query_topics = <<>> THEN <<>> ELSE collection_get(ex.store, ids)
       IN  ex' = [ex EXCEPT !.pc = "injected"] @@ [lookups |-> IF ex.query_topics = <<>> THEN <<>> ELSE <<ids>>, found |-> found, result |-> inject_topic_summaries(found, ex.docs, ex.query_topics, ex.max_k)]
    /\ UNCHANGED <<classes, imported, fs, job, bm25, registry, topicCache, corpus, ret, log, call, prev>>

\* boost_summaries(docs, query_topics, max_k), called with any max_k; again is
\* the boost applied to its own output
BoostSummaries ==
    /\ ex.pc = "boost_input"
    /\ \E max_k \in 1..MaxCandidates :
          LET result == boost_summaries(ex.docs, ex.query_topics, max_k)
          IN  ex' = [ex EXCEPT !.pc = "boost_summaries", !.max_k = max_k] @@ [result |-> result, again |-> boost_summaries(result, ex.query_topics, max_k)]
    /\ UNCHANGED <<classes, imported, fs, job, bm25, registry, topicCache, corpus, ret, log, call, prev>>

NextBoost == ApplyBoost \/ Inject \/ BoostSummaries

SpecBoost == InitBoost /\ [][NextBoost]_vars

-----------------------------------------------------------------------------
(* _deduplicate_docs on its own *)

\* chunk 0 of L100 as another search returned it: same doc_id and chunk_index
D1b == [D1 EXCEPT !.id = "L100_0_b", !.content = <<"wound care">>]

\* result lists of the searches of one call
VariantLists == {<<>>, <<D1>>, <<D3>>, <<D1, D2>>, <<D2, D1>>, <<D1b, D3>>, <<D3, D2, D1>>, <<D5, D3, D1b>>, <<D2, D5, D3>>}

\* the arguments of _deduplicate_docs
DedupInput(doc_lists, max_k) == [pc |-> "dedup_input", doc_lists |-> doc_lists, max_k |-> max_k]

InitDedup ==
    /\ ex \in {DedupInput(doc_lists, max_k) : doc_lists \in UNION {[1..n -> VariantLists] : n \in 0..NumLists}, max_k \in 1..MaxCandidates}
    /\ registry = {}
    /\ topicCache = EmptyCache
    /\ corpus = <<>>
    /\ ret = NoRetriever
    /\ log = {}
    /\ call = IdleCall
    /\ prev = NoPrev
    /\ classes = << >>
    /\ imported = FALSE
    /\ fs = << >>
    /\ job = NoJob
    /\ bm25 = NoIndex

\* _deduplicate_docs(doc_lists, max_k)
Deduplicate ==
    /\ ex.pc = "dedup_input"
    /\ ex' = [ex EXCEPT !.pc = "deduplicated"] @@ [result |-> _deduplicate_docs(ex.doc_lists, ex.max_k)]
    /\ UNCHANGED <<classes, imported, fs, job, bm25, registry, topicCache, corpus, ret, log, call, prev>>

NextDedup == Deduplicate

SpecDedup == InitDedup /\ [][NextDedup]_vars

-----------------------------------------------------------------------------
(* assign_topics over the definitions a topic definitions file gives *)

MaxTopicDefs == 3   \* most items of a topic definitions file

\* an item of the JSON list; a key that is absent has some = FALSE
RawTopic(name, patterns, min_pattern_matches) == [name |-> name, patterns |-> patterns, min_pattern_matches |-> min_pattern_matches]
Absent == [some |-> FALSE, v |-> 0]
Present(v) == [some |-> TRUE, v |-> v]

\* the items files are made of: the medicare topics, a topic with no patterns
\* and min_pattern_matches 0, one with min_pattern_matches -1, and a second
\* item named wound_care
RawTopics ==
    { RawTopic("wound_care", Present(<<{"wound care"}, {}>>), Present(1)),
      RawTopic("imaging", Present(<<{"imaging"}>>), Absent),
      RawTopic("billing_codes", Present(<<{"hcpcs"}, {"modifier"}>>), Present(2)),
      RawTopic("unused", Absent, Present(0)),
      RawTopic("lcd", Present(<<{"LCD"}>>), Present(0 - 1)),
      RawTopic("wound_care", Present(<<{"LCD"}, {"wound care"}>>), Absent) }

\* the texts topics are assigned to
TopicTexts ==
    { <<>>, <<"is">>, <<"wound care">>, <<"hcpcs">>, <<"hcpcs", " ", "modifier">>,
      <<"LCD", " ", "wound care">>, <<"imaging", " ", "wound care">>, <<"LCD", " ", "imaging">> }

\* an item read with min_pattern_matches taken as it stands
ParseTopic_NoFloor(item) == TopicDef(item.name, IF item.patterns.some THEN item.patterns.v ELSE <<>>, IF item.min_pattern_matches.some THEN item.min_pattern_matches.v ELSE 1)

\* the body of the loop of _load_topic_definitions: one TopicDef per item
ParseTopic(item) == TopicDef(item.name, IF item.patterns.some THEN item.patterns.v ELSE <<>>, Max(1, IF item.min_pattern_matches.some THEN item.min_pattern_matches.v ELSE 1))

\* the list _load_topic_definitions returns for the parsed JSON data
ParseTopicDefinitions(data) == [i \in 1..Len(data) |-> ParseTopic(data[i])]

TopicsInput(data, text) == [pc |-> "topics_input", data |-> data, text |-> text]

InitTopics ==
    /\ ex \in {TopicsInput(data, text) : data \in {d \in UNION {[1..n -> RawTopics] : n \in 0..MaxTopicDefs} : \A i, j \in 1..Len(d) : i # j => d[i] # d[j]}, text \in TopicTexts}
    /\ registry = {}
    /\ topicCache = EmptyCache
    /\ corpus = <<>>
    /\ ret = NoRetriever
    /\ log = {}
    /\ call = IdleCall
    /\ prev = NoPrev
    /\ classes = << >>
    /\ imported = FALSE
    /\ fs = << >>
    /\ job = NoJob
    /\ bm25 = NoIndex

\* assign_topics(doc, domain_name) with the domain's definitions read from data
AssignTopics ==
    /\ ex.pc = "topics_input"
    /\ ex' = [ex EXCEPT !.pc = "assigned"] @@ [topic_defs |-> ParseTopicDefinitions(ex.data), topics |-> assign_topics(ex.text, ParseTopicDefinitions(ex.data))]
    /\ UNCHANGED <<classes, imported, fs, job, bm25, registry, topicCache, corpus, ret, log, call, prev>>

NextTopics == AssignTopics

SpecTopics == InitTopics /\ [][NextTopics]_vars

-----------------------------------------------------------------------------
(* _TOPIC_DEF_CACHE over a sequence of calls *)

\* what a run of _load_topic_definitions gives: it raises (FileNotFoundError,
\* or json.loads / int / re.compile fail), or returns the definitions the
\* files hold at that moment
LoadOutcomes == {[ok |-> FALSE, defs |-> <<>>], [ok |-> TRUE, defs |-> MedicareTopics], [ok |-> TRUE, defs |-> AutoTopics]}

\* the functions that call _get_topic_definitions(domain_name)
CacheCallers == {"assign_topics", "cluster_documents", "tag_documents_with_topics"}

\* a test that loads whether or not the key is cached
LoaderRuns_Always(cache, domain_name) == TRUE

\* key not in _TOPIC_DEF_CACHE
LoaderRuns(cache, domain_name) == CacheKey(domain_name) \notin DOMAIN cache

\* _TOPIC_DEF_CACHE after _get_topic_definitions(domain_name), the loader
\* giving outcome if it runs
CacheAfterLoad(cache, domain_name, outcome) ==
    IF LoaderRuns(cache, domain_name) /\ outcome.ok
    THEN [k \in DOMAIN cache \cup {CacheKey(domain_name)} |-> IF k = CacheKey(domain_name) THEN outcome.defs ELSE cache[k]]
    ELSE cache

\* the record of a call: the cache it found, whether the loader ran, what was
\* raised, what was returned, and the keys whose load succeeded, succeeded
\* again, or failed so far
CacheCall(op, domain_name, cache, outcome, history) ==
    LET key == CacheKey(domain_name)
        ran == LoaderRuns(cache, domain_name)
    IN  [ pc |-> "called", op |-> op, key |-> key, ran |-> ran, before |-> cache,
          raised |-> IF ran /\ ~outcome.ok THEN "load_error" ELSE None,
          defs |-> IF ran /\ ~outcome.ok THEN <<>> ELSE CacheAfterLoad(cache, domain_name, outcome)[key],
          loaded |-> IF ran /\ outcome.ok THEN history.loaded \cup {key} ELSE history.loaded,
          twice |-> IF ran /\ outcome.ok /\ key \in history.loaded THEN history.twice \cup {key} ELSE history.twice,
          failed |-> IF ran /\ ~outcome.ok THEN history.failed \cup {key} ELSE history.failed ]

InitCache ==
    /\ ex = [pc |-> "not_imported", loaded |-> {}, twice |-> {}, failed |-> {}]
    /\ topicCache = EmptyCache
    /\ registry = {}
    /\ corpus = <<>>
    /\ ret = NoRetriever
    /\ log = {}
    /\ call = IdleCall
    /\ prev = NoPrev
    /\ classes = << >>
    /\ imported = FALSE
    /\ fs = << >>
    /\ job = NoJob
    /\ bm25 = NoIndex

\* import of ingest.cluster: TOPIC_DEFINITIONS = _get_topic_definitions();
\* when the load raises, so does the import, and it can be tried again
ImportCluster(outcome) ==
    /\ ex.pc \in {"not_imported", "import_failed"}
    /\ topicCache' = CacheAfterLoad(topicCache, None, outcome)
    /\ ex' = [CacheCall("import", None, topicCache, outcome, ex) EXCEPT !.pc = IF outcome.ok THEN "called" ELSE "import_failed"]
    /\ UNCHANGED <<classes, imported, fs, job, bm25, registry, corpus, ret, log, call, prev>>

\* assign_topics, cluster_documents or tag_documents_with_topics of a
\* non-empty list: the first _get_topic_definitions(domain_name) decides
CallCluster(op, domain_name, outcome) ==
    /\ ex.pc = "called"
    /\ topicCache' = CacheAfterLoad(topicCache, domain_name, outcome)
    /\ ex' = CacheCall(op, domain_name, topicCache, outcome, ex)
    /\ UNCHANGED <<classes, imported, fs, job, bm25, registry, corpus, ret, log, call, prev>>

NextCache ==
    \/ \E outcome \in LoadOutcomes : ImportCluster(outcome)
    \/ \E op \in CacheCallers, d \in DomainNames \cup {None}, outcome \in LoadOutcomes : CallCluster(op, d, outcome)

SpecCache == InitCache /\ [][NextCache]_vars

-----------------------------------------------------------------------------
(* Properties *)

Returned == call.pc = "done" /\ call.outcome = "returned"

\* the filter is the flat dict {source: X}
FlatSourceFilter(f) == ~f.none /\ Len(f.d) = 1 /\ f.d[1][1] = "source"

\* C1: when the caller's metadata_filter is {source: X}, every chunk a retrieval
\* call returns has metadata source X, except the chunks that were injected as
\* topic summaries.
C1_SourceFilterHonoured ==
    (Returned /\ FlatSourceFilter(ret.metadata_filter)) =>
        \A i \in 1..Len(call.result) :
            \/ call.result[i].source = ret.metadata_filter.d[1][2]
            \/ call.result[i] \in Range(call.injected)

\* a specialized call under {source: X} that returned searched chunks together
\* with an injected topic summary of another source
C1_Witness ==
    /\ Returned /\ FlatSourceFilter(ret.metadata_filter) /\ call.path = "lcd"
    /\ \E i \in 1..Len(call.result) :
          /\ call.result[i] \in Range(call.injected)
          /\ call.result[i].source # ret.metadata_filter.d[1][2]
    /\ \E i \in 1..Len(call.result) : call.result[i] \notin Range(call.injected)

\* C2 as stated: a retrieval call with parameter k returns at most k chunks, and
\* exactly one chunk when k = 1 and the corpus is not empty, for every query.
C2_AtMostK ==
    Returned =>
        /\ Len(call.result) <= ret.k
        /\ (ret.k = 1 /\ corpus # <<>>) => Len(call.result) = 1

\* C2 amended: a call returns at most k chunks unless it takes the specialized
\* path, where it returns at most max(k, LCD_RETRIEVAL_K); with k = 1, no
\* metadata filter and a non-empty corpus it returns exactly one chunk, and at
\* least one on the specialized path.
C2_AtMostKFinal ==
    Returned =>
        /\ Len(call.result) <= (IF call.path = "lcd" THEN Max(ret.k, LCD_RETRIEVAL_K)
                                ELSE ret.k)
        /\ (ret.k = 1 /\ corpus # <<>> /\ ret.metadata_filter.none) =>
              IF call.path = "lcd" THEN Len(call.result) >= 1 ELSE Len(call.result) = 1

\* a specialized call with k = 1 that returned LCD_RETRIEVAL_K chunks
C2_Witness ==
    /\ Returned /\ call.path = "lcd" /\ ret.k = 1
    /\ Len(call.result) = LCD_RETRIEVAL_K

\* C3: get_retriever never raises an unknown-domain error; the retriever it
\* builds carries a registered domain name: the requested one when that is
\* registered, DEFAULT_DOMAIN for None, and DEFAULT_DOMAIN with a logged warning
\* for an unregistered name; resolving the retriever's name again (as the
\* specialized source filter does) gives the same name.
C3_ResolvedDomain ==
    /\ ret.error = "none"
    /\ ret.kind # "none" =>
          /\ ret.domain_name \in registry \cup BuiltinDomains
          /\ ret.requested = None => ret.domain_name = DEFAULT_DOMAIN
          /\ (ret.requested # None /\ ret.requested \in registry \cup BuiltinDomains)
                => ret.domain_name = ret.requested
          /\ (ret.requested # None /\ ret.requested \notin registry \cup BuiltinDomains)
                => /\ ret.domain_name = DEFAULT_DOMAIN
                   /\ "unknown_domain_fallback" \in log
          /\ _resolve_domain_name(registry, ret.domain_name) = ret.domain_name

\* get_retriever was asked for an unregistered name and opened the default
\* domain's collection
C3_Witness ==
    /\ ret.kind = "lcd" /\ ret.requested = "nonexistent_domain_xyz"
    /\ ret.collection = "medicare"

\* the sources a caller filter pins, in flat or in "$and" form
PinnedSources(f) ==
    IF f.none THEN {}
    ELSE {f.d[i][2] : i \in {j \in 1..Len(f.d) : f.d[j][1] = "source"}}
         \cup UNION { {f.d[i][2][m][n][2] :
                          n \in {x \in 1..Len(f.d[i][2][m]) : f.d[i][2][m][x][1] = "source"}} :
                      i \in {j \in 1..Len(f.d) : f.d[j][1] = "$and"},
                      m \in 1..3 }

\* C4: a specialized query whose caller filter pins a source other than the
\* profile's specialized source (flat or "$and" form) skips the specialized
\* path: no search carries the specialized source filter and the result is the
\* generic path's, topic-summary injection and boost included.
C4_SkipIsGeneric ==
    LET req == get_domain(ret.domain_name).specialized_source_filter
    IN  (/\ Returned /\ call.path # "generic"
         /\ PinnedSources(ret.metadata_filter) \ {req} # {})
        => /\ \A i \in 1..Len(call.searches) :
                 \/ call.searches[i].flt.none
                 \/ DictGet(call.searches[i].flt.d, "source") # req
           /\ call.result =
                 GenericRetrieve(corpus, call.query, ret.k, ret.metadata_filter,
                                 assign_topics(call.query, DomainTopics(ret.domain_name)))

\* C5: a retrieval call in which a variant's store search failed still returns
\* normally (the failed list counts as empty).
C5_FailedSearchTolerated ==
    (call.pc = "done" /\ call.failed # <<>>) => call.outcome = "returned"

\* every chunk of the lists the call's searches returned
Searched == UNION {Range(call.lists[i]) : i \in 1..Len(call.lists)}

\* C6: every returned chunk was in the result list of a search of this call, or
\* was injected as the topic summary found under topic_<name> for a topic the
\* query matches.
C6_NoFabrication ==
    Returned =>
        \A i \in 1..Len(call.result) :
            \/ call.result[i] \in Searched
            \/ /\ call.result[i] \in Range(call.injected)
               /\ call.result[i] \in Range(corpus)
               /\ \E t \in Range(assign_topics(call.query, DomainTopics(ret.domain_name))) :
                     call.result[i].id = TopicSummaryId(t)

\* a call returned a searched chunk and an injected topic summary
C6_Witness ==
    /\ Returned
    /\ \E i \in 1..Len(call.result) : call.result[i] \in Searched
    /\ \E i \in 1..Len(call.result) :
          call.result[i] \notin Searched /\ call.result[i] \in Range(call.injected)

\* C7: a call that follows a call of the same retriever with the same query
\* (same k, filter, domain, store) returns the same ordered list.
C7_Deterministic ==
    (Returned /\ prev.valid) => call.result = prev.result

\* the second of two identical calls returned a non-empty list; the first ran
\* before the registry and the topic cache were filled
C7_Witness ==
    /\ Returned /\ prev.valid /\ call.result # <<>>
    /\ call.path = "lcd" /\ call.topics # <<>>

\* C8: no two chunks of a result share (doc_id, chunk_index); in particular a
\* result asked with k above the corpus size holds each chunk at most once.
C8_NoDuplicateKeys ==
    Returned =>
        \A i, j \in 1..Len(call.result) :
            DedupKey(call.result[i]) = DedupKey(call.result[j]) => i = j

\* k exceeds the size of a non-empty corpus, a chunk came back from several
\* searches of the call, and the call returned the whole corpus
C8_Witness ==
    /\ Returned /\ corpus # <<>> /\ ret.k > Len(corpus)
    /\ \E a, b \in 1..Len(call.lists) :
          a # b /\ Range(call.lists[a]) \cap Range(call.lists[b]) # {}
    /\ Len(call.result) = Len(corpus)

\* C9: the first element of the output of expand_lcd_query and of
\* expand_cross_source_query is the original query, and the output is not empty.
C9_FirstIsOriginal ==
    (ex.pc = "done" /\ ex.op \in {"expand_lcd_query", "expand_cross_source_query"}) =>
        /\ Len(ex.variants) >= 1
        /\ ex.variants[1] = ex.query

\* expand_lcd_query produced three variants for a query with an upper-case word
C9_Witness ==
    /\ ex.pc = "done" /\ ex.op = "expand_lcd_query"
    /\ Len(ex.variants) = 3 /\ "LCD" \in Range(ex.query)
    /\ ex.variants[1] = ex.query

\* no pattern of any source kind matches the query
NoSourceSignal(query, source_patterns) ==
    \A i \in 1..Len(source_patterns) :
        \A j \in 1..Len(source_patterns[i][2]) : ~Search(source_patterns[i][2][j], query)

-----------------------------------------------------------------------------
(* Properties of tagging, the registry, fusion and the file operations *)

\* the topic names read back from a chunk's topic_clusters metadata
ClusterNames(doc) ==
    IF doc.topic_clusters = <<>> THEN {}
    ELSE Range(SplitComma(doc.topic_clusters, <<>>))

\* the topic names assign_topics gives for a chunk under the profile of the call
AssignedNames(doc) ==
    assign_topics(doc.content, _get_topic_definitions(topicCache, registry, ex.domain))

\* C11 as stated: for every chunk, whatever metadata it carries, the names split
\* from the tagged chunk's topic_clusters are a subset of assign_topics(content);
\* with a topic applying topic_clusters is the comma-join of assign_topics, and
\* with none applying the chunk is returned unchanged.
C11_TagRoundTrip ==
    ex.pc = "done" =>
        \A i \in 1..Len(ex.tagged) :
            LET topics == AssignedNames(ex.documents[i])
            IN  /\ ClusterNames(ex.tagged[i]) \subseteq {<<t>> : t \in Range(topics)}
                /\ topics # <<>> => ex.tagged[i].topic_clusters = Join(",", topics)
                /\ topics = <<>> => ex.tagged[i] = ex.documents[i]

\* C11 amended: with a topic applying, topic_clusters is the comma-join of
\* assign_topics in declaration order (so the names split from it are exactly
\* the assigned ones) and nothing else of the chunk changes; with none applying
\* the chunk is returned unchanged, so the names split from its topic_clusters
\* are the ones it already carried (a subset of assign_topics only when it
\* carried none).
C11_TagRoundTripFresh ==
    ex.pc = "done" =>
        /\ Len(ex.tagged) = Len(ex.documents)
        /\ \A i \in 1..Len(ex.tagged) :
              LET topics == AssignedNames(ex.documents[i])
              IN  /\ topics # <<>> =>
                        /\ ex.tagged[i] =
                              [ex.documents[i] EXCEPT !.topic_clusters = Join(",", topics)]
                        /\ ClusterNames(ex.tagged[i]) = {<<t>> : t \in Range(topics)}
                  /\ topics = <<>> => ex.tagged[i] = ex.documents[i]
                  /\ (topics # <<>> \/ ex.documents[i].topic_clusters = <<>>) =>
                        ClusterNames(ex.tagged[i]) \subseteq {<<t>> : t \in Range(topics)}

\* a chunk that carried other topic names was tagged with two topics
C11_Witness ==
    /\ ex.pc = "done"
    /\ ex.documents[1].topic_clusters # <<>>
    /\ Len(AssignedNames(ex.documents[1])) = 2
    /\ ex.tagged[1].topic_clusters = Join(",", AssignedNames(ex.documents[1]))

\* every unit of the query is removed by the concept reduction: it is matched by
\* the noise or the filler pattern, or is a blank, "?" or parenthesis
ConceptIsEmpty(query, patterns) ==
    \A i \in 1..Len(query) :
        \/ query[i] \in Seps
        \/ patterns.strip_noise_pattern.some /\ query[i] \in patterns.strip_noise_pattern.pat
        \/ patterns.strip_filler_pattern.some /\ query[i] \in patterns.strip_filler_pattern.pat

\* C12 as stated: for a query whose concept-only reduction is empty,
\* expand_lcd_query returns the original query only.
C12_OriginalOnly ==
    (ex.pc = "done" /\ ex.op = "expand_lcd_query"
        /\ ConceptIsEmpty(ex.query, _get_domain_query_patterns(registry, ex.domain)))
    => ex.variants = <<ex.query>>

\* C12 amended: expand_lcd_query returns the original query followed by the
\* query with expansion terms appended; for a query whose concept-only reduction
\* is empty these two are the whole result, and a third element is present only
\* as a non-empty reduction that differs from the query.
C12_NoEmptyConcept ==
    (ex.pc = "done" /\ ex.op = "expand_lcd_query") =>
        LET patterns == _get_domain_query_patterns(registry, ex.domain)
            n == Len(ex.query)
        IN  /\ Len(ex.variants) \in {2, 3}
            /\ ex.variants[1] = ex.query
            /\ Len(ex.variants[2]) > n + 1
            /\ SubSeq(ex.variants[2], 1, n + 1) = ex.query \o <<" ">>
            /\ ConceptIsEmpty(ex.query, patterns) => Len(ex.variants) = 2
            /\ Len(ex.variants) = 3 =>
                  /\ ex.variants[3] # <<>>
                  /\ ex.variants[3] # ex.query
                  /\ ~ConceptIsEmpty(ex.variants[3], patterns)

\* a non-empty query that is all jargon and punctuation gave two variants
C12_Witness ==
    /\ ex.pc = "done" /\ ex.op = "expand_lcd_query"
    /\ "LCD" \in Range(ex.query) /\ Len(ex.query) >= 2
    /\ ConceptIsEmpty(ex.query, _get_domain_query_patterns(registry, ex.domain))
    /\ Len(ex.variants) = 2


-----------------------------------------------------------------------------
(* Domain registry *)

\* C13: get_domain(name) returns an instance of the class registered under
\* that very name, its name being the requested one, when the name is
\* registered once the built-in profiles have been discovered, and raises
\* KeyError otherwise; it returns no profile of another name and never None.
C13_LookupByName ==
    ex.pc = "get_domain" =>
        /\ ex.raised = None <=> ex.name \in DOMAIN classes
        /\ ex.raised = "KeyError" <=> ex.name \notin DOMAIN classes
        /\ BuiltinDomains \subseteq DOMAIN classes \/ ex.name \in DOMAIN classes
        /\ ex.raised = None => /\ ex.result = classes[ex.name]
                               /\ ex.result.name = ex.name
                               /\ ex.result \in PluginClasses \cup {MedicareDomain, AutoInsuranceDomain}

\* a lookup returned a plug-in profile registered after the built-in ones
C13_Witness ==
    /\ ex.pc = "get_domain"
    /\ ex.raised = None
    /\ ex.name = "auto_fleet"
    /\ ex.result \in PluginClasses
    /\ imported

\* C14: no two registered profiles share a name or a collection_name, so the
\* profiles of list_domains() have pairwise distinct collection names.
C14_UniqueCollections ==
    /\ \A n \in DOMAIN classes : classes[n].name = n
    /\ \A n1, n2 \in DOMAIN classes : n1 # n2 => classes[n1].collection_name # classes[n2].collection_name
    /\ ex.pc = "list_domains" => \A i, j \in 1..Len(ex.result) : i # j => classes[ex.result[i]].collection_name # classes[ex.result[j]].collection_name

-----------------------------------------------------------------------------
(* Fusion and diversification *)

\* C15: reciprocal-rank fusion gives the same ranking whatever the order in
\* which the result lists are supplied.
C15_FusionOrderInvariant == ex.pc = "fused" => ex.fused_permuted = ex.fused

\* lists supplied in another order, with two candidates tied on score and on
\* earliest rank
C15_Witness ==
    /\ ex.pc = "fused"
    /\ ex.permuted # ex.lists
    /\ \E i, j \in 1..Len(ex.fused) :
        /\ i # j
        /\ RrfScore(ex.lists, ex.fused[i]) = RrfScore(ex.lists, ex.fused[j])
        /\ EarliestRank(ex.lists, ex.fused[i]) = EarliestRank(ex.lists, ex.fused[j])
    /\ \E c \in Range(ex.fused) : \A i \in 1..NumLists : RankIn(ex.lists[i], c) # 0

\* no source holds more than ceil(k_final / 2) of the top k_final slots
CapHolds(list, k_final) == \A s \in {list[i].source : i \in 1..Len(list)} : Cardinality({i \in 1..Min(k_final, Len(list)) : list[i].source = s}) <= SourceCap(k_final)

\* the list is a reordering of the fused one that keeps each source's order
StablePermutation(list, fused) ==
    /\ Len(list) = Len(fused)
    /\ Range(list) = Range(fused)
    /\ \A s \in {fused[i].source : i \in 1..Len(fused)} : SelectSeq(list, LAMBDA c : c.source = s) = SelectSeq(fused, LAMBDA c : c.source = s)

\* some choice of top chunks among the fused ones respects the cap
CapFeasible(fused, k_final) == \E T \in SUBSET (1..Len(fused)) : /\ Cardinality(T) = Min(k_final, Len(fused))
                                                                  /\ \A s \in {fused[i].source : i \in T} : Cardinality({i \in T : fused[i].source = s}) <= SourceCap(k_final)

\* C16 as stated: without a pinned source the diversified list respects the
\* cap and is a stable permutation of the fused list.
C16_CapAndStable == (ex.pc = "diversified" /\ ~ex.pinned) => (CapHolds(ex.result, ex.k_final) /\ StablePermutation(ex.result, ex.fused))

\* C16 (amended): without a pinned source the diversified list is a stable
\* permutation of the fused list, and it respects the cap whenever the fused
\* list holds enough chunks of other sources for some choice of top chunks to
\* respect it.
C16_CapWhenFeasible ==
    (ex.pc = "diversified" /\ ~ex.pinned) =>
        /\ StablePermutation(ex.result, ex.fused)
        /\ CapFeasible(ex.fused, ex.k_final) => CapHolds(ex.result, ex.k_final)

\* a chunk was moved down to keep its source at the cap
C16_Witness ==
    /\ ex.pc = "diversified"
    /\ ~ex.pinned
    /\ ex.result # ex.fused
    /\ ~CapHolds(ex.fused, ex.k_final)
    /\ CapHolds(ex.result, ex.k_final)

-----------------------------------------------------------------------------
(* Keyword index *)

\* C17: under every interleaving of concurrent first calls the index is built
\* at most once and by one caller, a caller searches only after the build has
\* completed, and every search sees the whole index.
C17_OneShotBuild ==
    /\ bm25.builds <= 1
    /\ Cardinality({c \in Callers : bm25.at[c] = "building"}) <= 1
    /\ \A c \in Callers : bm25.at[c] \in {"searching", "done"} => (bm25.state = "built" /\ bm25.builds = 1)
    /\ \A c \in Callers : bm25.at[c] = "done" => bm25.searched[c] = corpus
    /\ \A c \in Callers : bm25.at[c] = "waiting" => bm25.state \in {"building", "built"}

\* every caller has searched; one built a non-empty index and another waited for it
C17_Witness ==
    /\ \A c \in Callers : bm25.at[c] = "done"
    /\ corpus # <<>>
    /\ bm25.waited # {}
    /\ bm25.builds = 1

-----------------------------------------------------------------------------
(* Downloads and extraction *)

\* C18: a download without force issues no request for a destination that
\* already exists and leaves its content unchanged; when every destination
\* exists it issues no request at all, and whenever it returns it has written
\* the manifest, listing the existing files; with force every file the
\* operation reaches is requested again.
C18_DownloadIdempotent ==
    job.pc = "download" =>
        LET urls == UrlsOf(job.kind)
            existing == {i \in 1..Len(urls) : Dest(job.kind, urls[i]) \in DOMAIN job.before}
            manifest == ManifestPath(job.kind)
        IN  /\ ~job.force => \A i \in existing : /\ urls[i].url \notin Range(job.requests)
                                                  /\ fs[Dest(job.kind, urls[i])] = job.before[Dest(job.kind, urls[i])]
            /\ (~job.force /\ existing = 1..Len(urls)) => (job.requests = <<>> /\ ~job.raised)
            /\ (~job.force /\ ~job.raised) =>
                    /\ manifest \in DOMAIN fs
                    /\ \A i \in existing : <<Dest(job.kind, urls[i]), <<"sha256", job.before[Dest(job.kind, urls[i])]>> >> \in Range(fs[manifest].files)
            /\ job.force => \/ \A i \in 1..Len(urls) : urls[i].url \in Range(job.requests)
                            \/ job.raised /\ job.requests # <<>>
            /\ job.raised => (manifest \in DOMAIN fs <=> manifest \in DOMAIN job.before)

\* a download without force found one regulation on disk and fetched the other
C18_Witness ==
    /\ job.pc = "download"
    /\ job.kind = "regulations"
    /\ ~job.force
    /\ ~job.raised
    /\ Dest("regulations", REGULATIONS_URLS[1]) \in DOMAIN job.before
    /\ fs[Dest("regulations", REGULATIONS_URLS[1])] = "local document"
    /\ job.requests = <<REGULATIONS_URLS[2].url>>
    /\ ManifestPath("regulations") \in DOMAIN fs
    /\ ManifestPath("regulations") \notin DOMAIN job.before

\* C19: an extraction without force leaves the .txt and .meta.json of a raw
\* document unchanged when both exist and still reports the pair, and a second
\* extraction without force returns the same list and leaves the same files.
C19_ExtractIdempotent ==
    (job.pc = "extract" /\ ~job.force) =>
        /\ \A i \in 1..Len(RawFiles(job.kind, job.before)) :
            LET path == RawFiles(job.kind, job.before)[i]
                out_txt == Path(<<"processed", "regulations">>, path.stem, ".txt")
                out_meta == Path(<<"processed", "regulations">>, path.stem, ".meta.json")
            IN  (path.suffix = ".pdf" /\ out_txt \in DOMAIN job.before /\ out_meta \in DOMAIN job.before) =>
                    /\ fs[out_txt] = job.before[out_txt]
                    /\ fs[out_meta] = job.before[out_meta]
                    /\ <<out_txt, out_meta>> \in Range(job.written)
        /\ extract(job.kind, fs, FALSE, job.unreadable) = [fs |-> fs, written |-> job.written]

-----------------------------------------------------------------------------
(* Truncation after injection and boost *)

\* C20: of the summaries matching the query topics that are among the
\* candidates or were injected, one is missing from the returned list only if
\* there are more of them than k_final, and never while a chunk that is not a
\* matching summary is returned.
C20_MatchingSummaryKept ==
    ex.pc = "boosted" =>
        LET matching == {d \in Range(ex.docs) \cup Range(ex.injected) : IsRelevantSummary(d, ex.query_topics)}
        IN  \A d \in matching : d \notin Range(ex.result) => /\ Cardinality(matching) > ex.max_k
                                                                /\ Range(ex.result) \subseteq matching

-----------------------------------------------------------------------------
\* C21: with topics matched, inject_topic_summaries looks the ids topic_<name>
\* up once and returns exactly the found summaries whose doc_id is not among
\* the candidates, followed by all the candidates in their order; with no topic
\* matched it makes no lookup and returns the candidates unchanged.
C21_InjectedBeforeAllCandidates ==
    ex.pc = "injected" =>
        IF ex.query_topics = <<>>
        THEN ex.lookups = <<>> /\ ex.result = ex.docs
        ELSE /\ ex.lookups = <<TopicSummaryIds(ex.query_topics)>>
             /\ \E n \in 0..Len(ex.result) :
                    /\ SubSeq(ex.result, n + 1, Len(ex.result)) = ex.docs
                    /\ {ex.result[i] : i \in 1..n} = {d \in Range(ex.store) : /\ d.id \in Range(TopicSummaryIds(ex.query_topics))
                                                                              /\ d.doc_id \notin {c.doc_id : c \in Range(ex.docs)}}

\* a chunk is a matching summary: a topic or document summary whose
\* topic_cluster, or one of its comma-separated topic_clusters, is a query topic
MatchingSummary(d, topics) ==
    /\ d.doc_type \in {"topic_summary", "document_summary"}
    /\ \E t \in Range(topics) : d.topic_cluster = t \/ <<t>> \in Range(SplitComma(d.topic_clusters, <<>>))

\* position of a chunk in a list without repetitions
IndexOf(l, d) == CHOOSE i \in 1..Len(l) : l[i] = d

\* a comes before b in the stable partition of docs
PartitionBefore(docs, topics, a, b) ==
    \/ MatchingSummary(a, topics) /\ ~MatchingSummary(b, topics)
    \/ /\ MatchingSummary(a, topics) <=> MatchingSummary(b, topics)
       /\ IndexOf(docs, a) < IndexOf(docs, b)

\* C22: boost_summaries returns the first max_k chunks of the stable partition
\* of its input into matching summaries and the rest (a permutation prefix of
\* the input), and boosting its output again changes nothing.
C22_StablePartition ==
    ex.pc = "boost_summaries" =>
        /\ Len(ex.result) = Min(Len(ex.docs), ex.max_k)
        /\ Range(ex.result) \subseteq Range(ex.docs)
        /\ \A i, j \in 1..Len(ex.result) : i < j => PartitionBefore(ex.docs, ex.query_topics, ex.result[i], ex.result[j])
        /\ \A d \in Range(ex.docs) \ Range(ex.result) : \A r \in Range(ex.result) : PartitionBefore(ex.docs, ex.query_topics, r, d)
        /\ ex.again = ex.result

\* a matching summary is moved in front of another chunk and the list is cut
C22_Witness ==
    /\ ex.pc = "boost_summaries"
    /\ Len(ex.docs) > ex.max_k
    /\ ex.result # Take(ex.docs, ex.max_k)
    /\ \E d \in Range(ex.result) : ~MatchingSummary(d, ex.query_topics)

\* a call on the specialized path whose searches have all returned
SpecializedSearchesDone ==
    /\ call.path = "lcd"
    /\ call.pc \in {"merge", "topics", "inject", "boost", "done"}
    /\ call.failed = <<>>

\* the filter selects exactly the chunks of the profile's specialized source
\* that the caller's filter admits
SpecializedAndCaller(flt) ==
    /\ ~flt.none
    /\ \A doc \in {D1, D2, D3, D4, D5, D6, D7} :
          Matches(doc, flt.d) <=> /\ doc.source = DomainClass(ret.domain_name).specialized_source_filter
                                  /\ ret.metadata_filter.none \/ Matches(doc, ret.metadata_filter.d)

\* the searches of a specialized call but for the filter of the baseline: one
\* per variant of expand_lcd_query, in order, under the specialized source
\* filter and the caller's filter, then one of the original query; each asks
\* for max(4, floor(k_final / 3)) chunks; every list is there before the merge
VariantSearches ==
    LET variants == expand_lcd_query(call.query, DomainClass(ret.domain_name).query_patterns)
        n == Len(variants)
    IN  /\ Len(call.searches) = n + 1
        /\ \A i \in 1..n : call.searches[i].text = variants[i] /\ SpecializedAndCaller(call.searches[i].flt)
        /\ call.searches[n + 1].text = call.query
        /\ \A i \in 1..(n + 1) : call.searches[i].k = Max(4, Max(ret.k, LCD_RETRIEVAL_K) \div 3)
        /\ call.plan = <<>> /\ Len(call.lists) = n + 1

\* C23 as stated: on the specialized path there is one search per variant under
\* the specialized source filter merged with the caller's filter, and one
\* baseline search of the original query whose filter does not restrict the
\* source to the specialized one; all ask for max(4, floor(k_final / 3))
\* chunks and have returned before the merge.
C23_BaselineWithoutSpecializedFilter ==
    SpecializedSearchesDone =>
        /\ VariantSearches
        /\ LET base == call.searches[Len(call.searches)]
           IN  DomainClass(ret.domain_name).specialized_source_filter \notin PinnedSources(base.flt)

\* C23 amended: the baseline search carries exactly the caller's filter (none
\* when the caller gave none); the rest as stated.
C23_BaselineCarriesCallerFilter ==
    SpecializedSearchesDone =>
        /\ VariantSearches
        /\ call.searches[Len(call.searches)].flt = ret.metadata_filter

\* a specialized call with three variants and the caller's filter on the
\* specialized source itself, asked with the largest k, has returned
C23_Witness ==
    /\ SpecializedSearchesDone /\ Returned
    /\ Len(call.searches) = 4
    /\ ret.k = MaxK
    /\ FlatSourceFilter(ret.metadata_filter)
    /\ call.result # <<>>

\* the places (position, list) of the lists, and the order they are visited in
Places(doc_lists) == {<<p, l>> : p \in 1..MaxLen(doc_lists), l \in 1..Len(doc_lists)} \cap {pl \in Nat \X Nat : pl[1] <= Len(doc_lists[pl[2]])}

VisitedBefore(a, b) == a[1] < b[1] \/ (a[1] = b[1] /\ a[2] < b[2])

\* the places holding the first occurrence of their (doc_id, chunk_index)
FirstPlaces(doc_lists) ==
    {a \in Places(doc_lists) : ~\E b \in Places(doc_lists) :
        /\ VisitedBefore(b, a)
        /\ DedupKey(doc_lists[b[2]][b[1]]) = DedupKey(doc_lists[a[2]][a[1]])}

\* the earliest position of a chunk in any list
EarliestPosition(doc_lists, d) ==
    CHOOSE p \in 1..MaxLen(doc_lists) :
        /\ \E l \in 1..Len(doc_lists) : p <= Len(doc_lists[l]) /\ doc_lists[l][p] = d
        /\ \A a \in Places(doc_lists) : doc_lists[a[2]][a[1]] = d => p <= a[1]

\* C24: _deduplicate_docs returns the first max_k chunks that are the first of
\* their (doc_id, chunk_index) in the round-robin visit of the lists (position
\* 0 of every list in list order, then position 1, ...); so it returns at most
\* max_k chunks, no key twice, and no chunk after a chunk whose earliest
\* position in any list is greater than a position the first one holds.
C24_RoundRobinMerge ==
    ex.pc = "deduplicated" =>
        LET firsts == FirstPlaces(ex.doc_lists)
            rank(a) == Cardinality({b \in firsts : VisitedBefore(b, a)}) + 1
        IN  /\ Len(ex.result) = Min(ex.max_k, Cardinality(firsts))
            /\ \A a \in firsts : rank(a) <= ex.max_k => ex.result[rank(a)] = ex.doc_lists[a[2]][a[1]]
            /\ Len(ex.result) <= ex.max_k
            /\ \A i, j \in 1..Len(ex.result) : i # j => DedupKey(ex.result[i]) # DedupKey(ex.result[j])
            /\ \A i, j \in 1..Len(ex.result) :
                  i < j => ~\E a \in Places(ex.doc_lists) :
                              /\ ex.doc_lists[a[2]][a[1]] = ex.result[j]
                              /\ EarliestPosition(ex.doc_lists, ex.result[i]) > a[1]

\* lists of different lengths that share a key were merged and cut: a chunk
\* was dropped as a duplicate key and another by the cut
C24_Witness ==
    /\ ex.pc = "deduplicated"
    /\ Len(ex.doc_lists) = NumLists
    /\ Len(ex.doc_lists[1]) # Len(ex.doc_lists[2])
    /\ Len(ex.result) = ex.max_k
    /\ Cardinality(FirstPlaces(ex.doc_lists)) > ex.max_k
    /\ \E a \in Places(ex.doc_lists) \ FirstPlaces(ex.doc_lists) : ex.doc_lists[a[2]][a[1]] \notin Range(ex.result)
    /\ ex.result # Take(ex.doc_lists[1], ex.max_k)

\* the indices of the specialized topic patterns that match the query
MatchingTopicPatterns(patterns, query) ==
    {i \in 1..Len(patterns.specialized_topic_patterns) : Search(patterns.specialized_topic_patterns[i][1], query)}

\* text is the expansions of the topic patterns picked by idx, in declaration
\* order, with one space between two of them
IsExpansionsInOrder(text, patterns, idx) ==
    /\ Len(text) = 2 * Cardinality(idx) - 1
    /\ \A j \in 1..Len(text) :
          IF j % 2 = 0 THEN text[j] = " "
          ELSE \E i \in idx : /\ Cardinality({h \in idx : h < i}) = j \div 2
                               /\ text[j] = patterns.specialized_topic_patterns[i][2]

\* C25: expand_lcd_query returns, in this order, the original query; the query
\* followed by the expansions of every specialized topic pattern that matches
\* it, in declaration order, or by the generic expansion when none matches; and
\* the concept-only reduction, present iff it is non-empty and differs from the
\* query ignoring case. So it returns two or three variants.
C25_ThreeVariantsInOrder ==
    (ex.pc = "done" /\ ex.op = "expand_lcd_query") =>
        LET patterns == _get_domain_query_patterns(registry, ex.domain)
            idx == MatchingTopicPatterns(patterns, ex.query)
            n == Len(ex.query)
            concept == _strip_to_concept(ex.query, patterns.strip_noise_pattern, patterns.strip_filler_pattern)
            emitted == concept # <<>> /\ Lower(concept) # Lower(ex.query)
        IN  /\ Len(ex.variants) = (IF emitted THEN 3 ELSE 2)
            /\ ex.variants[1] = ex.query
            /\ SubSeq(ex.variants[2], 1, n + 1) = ex.query \o <<" ">>
            /\ LET tail == SubSeq(ex.variants[2], n + 2, Len(ex.variants[2]))
               IN  IF idx = {} THEN tail = <<GenericExpansion>>
                   ELSE IsExpansionsInOrder(tail, patterns, idx)
            /\ emitted => ex.variants[3] = concept

\* a query that matches two topic patterns gave three variants
C25_Witness ==
    /\ ex.pc = "done" /\ ex.op = "expand_lcd_query"
    /\ Cardinality(MatchingTopicPatterns(_get_domain_query_patterns(registry, ex.domain), ex.query)) = 2
    /\ Len(ex.variants) = 3

\* the entries of the relevance map that get a source variant
VariantKinds(relevance, source_expansions) ==
    {i \in 1..Len(relevance) : relevance[i][2][1] > 0 /\ HasKey(source_expansions, relevance[i][1])}

\* the texts of the variants: the query; one query + " " + expansion per source
\* kind with relevance > 0 and an expansion, in the order of the relevance
\* map; the synonym-expanded query last iff it differs from the query
VariantTexts ==
    LET p == PatternsFor(registry, ex.domain)
        relevance == detect_source_relevance(ex.query, p.source_patterns, p.default_source_relevance)
        kinds == VariantKinds(relevance, ex.source_expansions)
        synonym_expanded == _apply_synonyms(ex.query, p.synonym_map)
    IN  /\ Len(ex.variants) = 1 + Cardinality(kinds) + (IF synonym_expanded # ex.query THEN 1 ELSE 0)
        /\ ex.variants[1] = ex.query
        /\ \A i \in kinds : ex.variants[1 + Cardinality({h \in kinds : h <= i})] = ex.query \o <<" ", Get(ex.source_expansions, relevance[i][1])>>
        /\ synonym_expanded # ex.query => ex.variants[Len(ex.variants)] = synonym_expanded

\* C26 as stated: expand_cross_source_query returns the original query with no
\* filter, then one variant query + " " + expansion carrying the filter
\* {source: kind} for each source kind with relevance > 0 and an expansion,
\* then the synonym-expanded query with no filter iff synonyms changed the
\* query; 1 + kinds + (1 if a synonym matched) variants in all.
C26_VariantsCarryFilters ==
    (ex.pc = "done" /\ ex.op = "expand_cross_source_query") =>
        LET p == PatternsFor(registry, ex.domain)
            relevance == detect_source_relevance(ex.query, p.source_patterns, p.default_source_relevance)
            kinds == VariantKinds(relevance, ex.source_expansions)
        IN  /\ VariantTexts
            /\ CarriedFilter(ex.variants[1]) = NoFilter
            /\ \A i \in kinds : CarriedFilter(ex.variants[1 + Cardinality({h \in kinds : h <= i})]) = Filter(<< <<"source", relevance[i][1]>> >>)
            /\ Len(ex.variants) > 1 + Cardinality(kinds) => CarriedFilter(ex.variants[Len(ex.variants)]) = NoFilter

\* C26 amended: the variants are returned as texts in the stated order and
\* number, and none of them carries a source filter.
C26_VariantTextsOnly ==
    (ex.pc = "done" /\ ex.op = "expand_cross_source_query") =>
        /\ VariantTexts
        /\ \A i \in 1..Len(ex.variants) : CarriedFilter(ex.variants[i]) = NoFilter

\* a query with a source kind of relevance zero, one of positive relevance
\* without an expansion and one with an expansion: two variants
C26_Witness ==
    /\ ex.pc = "done" /\ ex.op = "expand_cross_source_query"
    /\ LET p == PatternsFor(registry, ex.domain)
           relevance == detect_source_relevance(ex.query, p.source_patterns, p.default_source_relevance)
       IN  /\ \E i \in 1..Len(relevance) : relevance[i][2][1] = 0
           /\ \E i \in 1..Len(relevance) : relevance[i][2][1] > 0 /\ ~HasKey(ex.source_expansions, relevance[i][1])
           /\ Cardinality(VariantKinds(relevance, ex.source_expansions)) = 1
           /\ Len(ex.variants) = 2

\* the indices of the synonym_map entries whose pattern matches the query
MatchingSynonyms(synonym_map, query) == {i \in 1..Len(synonym_map) : Search(synonym_map[i][1], query)}

\* text is the expansions of the entries picked by idx, in declaration order,
\* with one space between two of them
IsAdditionsInOrder(text, synonym_map, idx) ==
    /\ Len(text) = 2 * Cardinality(idx) - 1
    /\ \A j \in 1..Len(text) :
          IF j % 2 = 0 THEN text[j] = " "
          ELSE \E i \in idx : Cardinality({h \in idx : h < i}) = j \div 2 /\ text[j] = synonym_map[i][2]

\* C27: _apply_synonyms returns the query unchanged when no synonym pattern
\* matches, and otherwise the query as an unmodified prefix, a space, and the
\* expansions of exactly the matching synonym_map entries, space-separated, in
\* declaration order.
C27_SynonymsOnlyAppend ==
    (ex.pc = "done" /\ ex.op = "_apply_synonyms") =>
        LET synonym_map == PatternsFor(registry, ex.domain).synonym_map
            idx == MatchingSynonyms(synonym_map, ex.query)
            n == Len(ex.query)
        IN  IF idx = {} THEN ex.text = ex.query
            ELSE /\ SubSeq(ex.text, 1, n) = ex.query
                 /\ ex.text[n + 1] = " "
                 /\ IsAdditionsInOrder(SubSeq(ex.text, n + 2, Len(ex.text)), synonym_map, idx)

\* a query that two synonym entries match was expanded
C27_Witness ==
    /\ ex.pc = "done" /\ ex.op = "_apply_synonyms"
    /\ Cardinality(MatchingSynonyms(PatternsFor(registry, ex.domain).synonym_map, ex.query)) = 2
    /\ Len(ex.text) = Len(ex.query) + 4

\* s is min(1, M / T) as an exact fraction: within [0, 1], 0 iff M = 0, 1 iff M >= T
IsCappedRatio(s, M, T) ==
    /\ s[2] > 0
    /\ s[1] * T = Min(M, T) * s[2]
    /\ 0 <= s[1] /\ s[1] <= s[2]
    /\ s[1] = 0 <=> M = 0
    /\ s[1] = s[2] <=> M >= T

\* C28: the score detect_source_relevance computes for a source kind with
\* pattern list P is min(1, M / T), M the number of patterns of P that match
\* the query and T = max(1, floor(|P| / 3)): it lies in [0, 1], is 0 iff
\* M = 0 and 1 iff M >= T; these scores are what is returned unless all are 0.
C28_ScoreIsCappedRatio ==
    (ex.pc = "done" /\ ex.op = "detect_source_relevance") =>
        LET scores == SourceScores(ex.query, ex.source_patterns)
            M(i) == Cardinality({j \in 1..Len(ex.source_patterns[i][2]) : Search(ex.source_patterns[i][2][j], ex.query)})
            T(i) == Max(1, Len(ex.source_patterns[i][2]) \div 3)
        IN  /\ \A i \in 1..Len(ex.source_patterns) : IsCappedRatio(scores[i][2], M(i), T(i))
            /\ (\E i \in 1..Len(ex.source_patterns) : M(i) > 0) =>
                  /\ Len(ex.relevance) = Len(ex.source_patterns)
                  /\ \A i \in 1..Len(ex.relevance) : IsCappedRatio(ex.relevance[i][2], M(i), T(i))

\* a kind with fewer than three patterns, two of them matching, scored 1, next
\* to a kind that scored 0
C28_Witness ==
    /\ ex.pc = "done" /\ ex.op = "detect_source_relevance"
    /\ \E i \in 1..Len(ex.source_patterns) :
          /\ Len(ex.source_patterns[i][2]) < 3
          /\ CountMatches(ex.source_patterns[i][2], ex.query) = 2
          /\ ex.relevance[i][2] = <<1, 1>>
    /\ \E i \in 1..Len(ex.relevance) : ex.relevance[i][2][1] = 0


\* the definitions whose count of matching patterns reaches min_pattern_matches
MatchingDefs(topic_defs, text) ==
    {i \in 1..Len(topic_defs) : Cardinality({j \in 1..Len(topic_defs[i].patterns) : Search(topic_defs[i].patterns[j], text)}) >= topic_defs[i].min_pattern_matches}

\* assign_topics holds t iff a definition named t has at least
\* min_pattern_matches (always >= 1) matching patterns, one name per matching
\* definition, in declaration order
TopicsOfMatchingDefs ==
    LET idx == MatchingDefs(ex.topic_defs, ex.text)
    IN  /\ \A i \in 1..Len(ex.topic_defs) : ex.topic_defs[i].min_pattern_matches >= 1
        /\ \A i \in idx : ex.topic_defs[i].patterns # <<>>
        /\ Len(ex.topics) = Cardinality(idx)
        /\ \A i \in idx : ex.topics[1 + Cardinality({h \in idx : h < i})] = ex.topic_defs[i].name
        /\ \A i \in 1..Len(ex.topic_defs) : ex.topic_defs[i].name \in Range(ex.topics) <=> \E h \in idx : ex.topic_defs[h].name = ex.topic_defs[i].name

\* C29 as stated: assign_topics(text) contains t iff the number of t's
\* patterns that match is at least t.min_pattern_matches, which is >= 1 (a
\* topic with no patterns never matches); the names come in declaration order
\* and no name appears twice.
C29_NoNameTwice ==
    ex.pc = "assigned" =>
        /\ TopicsOfMatchingDefs
        /\ \A i, j \in 1..Len(ex.topics) : i # j => ex.topics[i] # ex.topics[j]

\* C29 amended: no name appears twice when the definitions have pairwise
\* distinct names; the rest as stated.
C29_NoNameTwiceIfDistinct ==
    ex.pc = "assigned" =>
        /\ TopicsOfMatchingDefs
        /\ (\A i, j \in 1..Len(ex.topic_defs) : i # j => ex.topic_defs[i].name # ex.topic_defs[j].name)
              => \A i, j \in 1..Len(ex.topics) : i # j => ex.topics[i] # ex.topics[j]

\* of three definitions with distinct names, one asking for two matches, two
\* matched and one did not
C29_Witness ==
    /\ ex.pc = "assigned"
    /\ Len(ex.topic_defs) = 3
    /\ \A i, j \in 1..3 : i # j => ex.topic_defs[i].name # ex.topic_defs[j].name
    /\ \E i \in 1..3 : ex.topic_defs[i].min_pattern_matches = 2
    /\ \E i \in 1..3 : ex.data[i].min_pattern_matches.some /\ ex.data[i].min_pattern_matches.v < 1
    /\ Len(ex.topics) = 2

\* C30: in every call of a sequence of assign_topics, cluster and tagging
\* calls, the loader runs for the call's key only when the cache holds no
\* entry for it; an entry is added only by a load that succeeded, under that
\* key; no entry is replaced or removed; a failed load raises and leaves the
\* cache unchanged; the caller gets the cached definitions; and no key's
\* definitions are loaded twice.
C30_CacheGrowsOnly ==
    ex.pc \in {"called", "import_failed"} =>
        /\ \A k \in DOMAIN ex.before : k \in DOMAIN topicCache /\ topicCache[k] = ex.before[k]
        /\ ex.ran <=> ex.key \notin DOMAIN ex.before
        /\ DOMAIN topicCache \ DOMAIN ex.before \subseteq {ex.key}
        /\ DOMAIN topicCache # DOMAIN ex.before => ex.ran /\ ex.raised = None
        /\ ex.raised # None <=> ex.ran /\ topicCache = ex.before
        /\ ex.raised = None => ex.key \in DOMAIN topicCache /\ ex.defs = topicCache[ex.key]
        /\ ex.twice = {} /\ ex.loaded = DOMAIN topicCache

\* a load for a key failed, a later call loaded the key, and a call after
\* that was served from the cache
C30_Witness ==
    /\ ex.pc = "called" /\ ex.op # "import"
    /\ ex.key \in ex.failed /\ ex.key \in ex.loaded
    /\ ~ex.ran /\ ex.raised = None
    /\ Cardinality(DOMAIN topicCache) >= 2
====
